---- MODULE Spec2Model ----
(***************************************************************************)
(* Red-Black tree of package rbtree (src/rbtree/rbtree.go).                *)
(*                                                                         *)
(* The heap of node structs is the function tree.nodes from node           *)
(* addresses to node records; the absent pointer is Nil.  Every method of  *)
(* RedBlackTree is an operator from the tree before the call to the tree   *)
(* after it, written statement by statement after the Go source, and one   *)
(* action of the state machine.                                            *)
(***************************************************************************)
EXTENDS Integers, Sequences, FiniteSets, TLC

\* ------------------------------------------------------------------ bounds
\* values handed to Insert/Delete/Search are 1..MaxVal
MaxVal == 7
\* number of nodes the heap has room for
MaxNodes == 7

\* values of the caller whose keys grow are 1..MaxGrow
MaxGrow == 10

\* values of the caller that makes a round trip are 1..MaxTrip
MaxTrip == 5
\* values of the caller with a comparator that is no total order are
\* 1..MaxWild; its comparator differs from the ascending order on at most
\* MaxWrong pairs of values, and its heap has room for MaxWildNodes nodes
MaxWild == 3
MaxWrong == 2
MaxWildNodes == 6
\* values of the caller that rotates are 1..MaxRotate
MaxRotate == 5
\* values of the callers that share the tree without a lock are 1..MaxRace
MaxRace == 4
\* values of the writer and the reader that share the tree without a lock
\* are 1..MaxRead, and at most MaxOverlap calls of the writer overlap one
\* call of the reader
MaxRead == 3
MaxOverlap == 2

Values == 1..MaxVal
WildValues == 1..MaxWild
TripValues == 1..MaxTrip
GrowValues == 1..MaxGrow
RotateValues == 1..MaxRotate
RaceValues == 1..MaxRace
ReadValues == 1..MaxRead
\* the addresses of the nodes of that caller: one node for each value
RotateNodes == 1..MaxRotate

\* --------------------------------------------------------------- data model
Nil == 0

Black == TRUE
Red == FALSE

\* comparators a caller may pass to New: the two total orders on the
\* integers, as functions on the pairs of the values S the caller uses
AscendingOn(S) == [p \in S \X S |->
                     IF p[1] < p[2] THEN -1 ELSE IF p[1] > p[2] THEN 1 ELSE 0]
DescendingOn(S) == [p \in S \X S |->
                      IF p[1] > p[2] THEN -1 ELSE IF p[1] < p[2] THEN 1 ELSE 0]
Ascending == AscendingOn(Values)
Descending == DescendingOn(Values)
Comparators == {Ascending, Descending}

\* comparators that are deterministic and return -1, 0 or 1, and no more:
\* the ascending order with any results on the pairs of D, for every set D
\* of at most MaxWrong pairs
WildPairs == WildValues \X WildValues
WildResults ==
    UNION {[D -> {-1, 0, 1}] :
              D \in {E \in SUBSET WildPairs : Cardinality(E) <= MaxWrong}}
WildComparators ==
    {[p \in WildPairs |->
         IF p \in DOMAIN f THEN f[p] ELSE AscendingOn(WildValues)[p]] :
     f \in WildResults}

\* mutant of newNode: the node is made Black
newNodeBlack(value) ==
    [value |-> value, color |-> Black, left |-> Nil, right |-> Nil, parent |-> Nil]

\* &node[T]{value: value, color: Red}
newNode(value) ==
    [value |-> value, color |-> Red, left |-> Nil, right |-> Nil, parent |-> Nil]

\* New(compare): root nil, size 0.  climb is not a field of the struct: it
\* holds, for each iteration the rebalancing loop of the current call has
\* begun, the depth of the loop's current node n when the iteration began.
\* turns is no field of the struct either: it holds the rotations of the
\* current call, in the order of the calls of rotateLeft and rotateRight.
\* heads is none either: it holds the current node n and the tree each time
\* the loop of insertFixup comes to its head, or leaves by its break.
New(compare) ==
    [root |-> Nil, size |-> 0, compare |-> compare,
     nodes |-> [i \in {} |-> newNode(0)], fault |-> FALSE, climb |-> <<>>,
     turns |-> <<>>, heads |-> <<>>]

\* a step that dereferences a nil pointer panics
Fault(t) == [t EXCEPT !.fault = TRUE]

\* the number of parent links from n up to a node without a parent, at most
\* fuel of them
RECURSIVE parentLinks(_, _, _)
parentLinks(t, n, fuel) ==
    IF n = Nil \/ fuel = 0 THEN 0
    ELSE IF t.nodes[n].parent = Nil THEN 0
    ELSE 1 + parentLinks(t, t.nodes[n].parent, fuel - 1)

\* the depth of a child of parent, absent or not
DepthBelow(t, parent) ==
    IF parent = Nil THEN 0
    ELSE 1 + parentLinks(t, parent, Cardinality(DOMAIN t.nodes))

\* the body of the loop of insertFixup (line 103) or of deleteFixup (line
\* 301) is entered with the current node n below parent
Tick(t, parent) == [t EXCEPT !.climb = Append(@, DepthBelow(t, parent))]

\* the loop of insertFixup is at its head (line 103), or at its break (line
\* 138), with the current node n
AtHead(t, n) ==
    [t EXCEPT !.heads = Append(@, [n |-> n, root |-> t.root, nodes |-> t.nodes])]

\* rotateLeft (line 145) or rotateRight (line 164) is called at node with
\* the child pivot to lift: turns records the call and the iteration of
\* the loop that made it
Turn(t, node, pivot, left) ==
    [t EXCEPT !.turns = Append(@, [at |-> Len(t.climb), node |-> node,
                                   pivot |-> pivot, left |-> left])]

\* the address the allocator returns: the heap holds the addresses 1..k, and
\* the new node gets k+1
alloc(t) == Cardinality(DOMAIN t.nodes) + 1

\* The garbage collector: it marks the nodes some chain of left, right and
\* parent pointers from t.root reaches (mark: the nodes in the order reached)
\* and frees the others.  A program cannot observe an address, only whether
\* two pointers are equal, so the kept nodes are renumbered 1, 2, ... in the
\* order marked: trees that differ in their addresses alone are one state.
\* The call has returned, and the count of its loop iterations ends with it.
RECURSIVE mark(_, _, _)
mark(t, todo, marked) ==
    IF todo = <<>> THEN marked
    ELSE LET n == Head(todo)
         IN IF n = Nil \/ \E i \in 1..Len(marked) : marked[i] = n
            THEN mark(t, Tail(todo), marked)
            ELSE mark(t, <<t.nodes[n].left, t.nodes[n].right, t.nodes[n].parent>>
                             \o Tail(todo),
                      Append(marked, n))

collect(t) ==
    LET live == mark(t, <<t.root>>, <<>>)
        addr(p) == IF p = Nil THEN Nil
                   ELSE CHOOSE i \in 1..Len(live) : live[i] = p
    IN [t EXCEPT !.root = addr(t.root),
                 !.climb = <<>>,
                 !.turns = <<>>,
                 !.heads = <<>>,
                 !.nodes = [i \in 1..Len(live) |->
                               [t.nodes[live[i]] EXCEPT !.left = addr(@),
                                                        !.right = addr(@),
                                                        !.parent = addr(@)]]]

\* ------------------------------------------------------------- accessors
TreeLen(t) == t.size

IsEmpty(t) == t.size = 0

\* mutant of Clear: the root is kept
ClearKeepsRoot(t) == [t EXCEPT !.size = 0]

Clear(t) == [t EXCEPT !.root = Nil, !.size = 0]

\* ---------------------------------------------------------------- Search
RECURSIVE SearchFrom(_, _, _)
\* mutant of SearchFrom: the descent goes right where the value compares
\* less, and left where it compares greater
SearchFromWrongSide(t, value, current) ==
    IF current = Nil THEN FALSE
    ELSE LET cmp == t.compare[<<value, t.nodes[current].value>>]
         IN IF cmp = 0 THEN TRUE
            ELSE IF cmp > 0 THEN SearchFrom(t, value, t.nodes[current].left)
            ELSE SearchFrom(t, value, t.nodes[current].right)

SearchFrom(t, value, current) ==
    IF current = Nil THEN FALSE
    ELSE LET cmp == t.compare[<<value, t.nodes[current].value>>]
         IN IF cmp = 0 THEN TRUE
            ELSE IF cmp < 0 THEN SearchFrom(t, value, t.nodes[current].left)
            ELSE SearchFrom(t, value, t.nodes[current].right)

Search(t, value) == SearchFrom(t, value, t.root)

\* ------------------------------------------------------------- rotations
\* mutant of rotateLeft: x keeps y as its right child
rotateLeftKeepsRight(t, x) ==
    IF x = Nil THEN Fault(t)
    ELSE LET y == t.nodes[x].right
         IN IF y = Nil THEN Fault(t)
            ELSE LET yl == t.nodes[y].left
                     t2 == IF yl # Nil THEN [t EXCEPT !.nodes[yl].parent = x] ELSE t
                     t3 == [t2 EXCEPT !.nodes[y].parent = t2.nodes[x].parent]
                     xp == t3.nodes[x].parent
                     t4 == IF xp = Nil THEN [t3 EXCEPT !.root = y]
                           ELSE IF x = t3.nodes[xp].left
                                THEN [t3 EXCEPT !.nodes[xp].left = y]
                                ELSE [t3 EXCEPT !.nodes[xp].right = y]
                     t5 == [t4 EXCEPT !.nodes[y].left = x]
                 IN [t5 EXCEPT !.nodes[x].parent = y]

rotateLeft(t, x) ==
    IF x = Nil THEN Fault(Turn(t, x, Nil, TRUE))
    ELSE LET y == t.nodes[x].right
         IN IF y = Nil THEN Fault(Turn(t, x, y, TRUE))
            ELSE LET t1 == [Turn(t, x, y, TRUE) EXCEPT !.nodes[x].right = t.nodes[y].left]
                     yl == t1.nodes[y].left
                     t2 == IF yl # Nil THEN [t1 EXCEPT !.nodes[yl].parent = x] ELSE t1
                     t3 == [t2 EXCEPT !.nodes[y].parent = t2.nodes[x].parent]
                     xp == t3.nodes[x].parent
                     t4 == IF xp = Nil THEN [t3 EXCEPT !.root = y]
                           ELSE IF x = t3.nodes[xp].left
                                THEN [t3 EXCEPT !.nodes[xp].left = y]
                                ELSE [t3 EXCEPT !.nodes[xp].right = y]
                     t5 == [t4 EXCEPT !.nodes[y].left = x]
                 IN [t5 EXCEPT !.nodes[x].parent = y]

\* mutant of rotateRight: y.left is left absent, not given the right child
\* of x
rotateRightDropsInner(t, y) ==
    IF y = Nil THEN Fault(t)
    ELSE LET x == t.nodes[y].left
         IN IF x = Nil THEN Fault(t)
            ELSE LET t1 == [t EXCEPT !.nodes[y].left = Nil]
                     t3 == [t1 EXCEPT !.nodes[x].parent = t1.nodes[y].parent]
                     yp == t3.nodes[y].parent
                     t4 == IF yp = Nil THEN [t3 EXCEPT !.root = x]
                           ELSE IF y = t3.nodes[yp].right
                                THEN [t3 EXCEPT !.nodes[yp].right = x]
                                ELSE [t3 EXCEPT !.nodes[yp].left = x]
                     t5 == [t4 EXCEPT !.nodes[x].right = y]
                 IN [t5 EXCEPT !.nodes[y].parent = x]

rotateRight(t, y) ==
    IF y = Nil THEN Fault(Turn(t, y, Nil, FALSE))
    ELSE LET x == t.nodes[y].left
         IN IF x = Nil THEN Fault(Turn(t, y, x, FALSE))
            ELSE LET t1 == [Turn(t, y, x, FALSE) EXCEPT !.nodes[y].left = t.nodes[x].right]
                     xr == t1.nodes[x].right
                     t2 == IF xr # Nil THEN [t1 EXCEPT !.nodes[xr].parent = y] ELSE t1
                     t3 == [t2 EXCEPT !.nodes[x].parent = t2.nodes[y].parent]
                     yp == t3.nodes[y].parent
                     t4 == IF yp = Nil THEN [t3 EXCEPT !.root = x]
                           ELSE IF y = t3.nodes[yp].right
                                THEN [t3 EXCEPT !.nodes[yp].right = x]
                                ELSE [t3 EXCEPT !.nodes[yp].left = x]
                     t5 == [t4 EXCEPT !.nodes[x].right = y]
                 IN [t5 EXCEPT !.nodes[y].parent = x]

\* ----------------------------------------------------------- insertFixup
\* mutant of insertLine: the parent is not recolored Black
insertLineParentStaysRed(t, n, leftSide) ==
    LET p == t.nodes[n].parent
    IN IF p = Nil THEN Fault(t)
       ELSE LET g == t.nodes[p].parent
            IN IF g = Nil THEN Fault(t)
               ELSE IF leftSide THEN rotateRight([t EXCEPT !.nodes[g].color = Red], g)
               ELSE rotateLeft([t EXCEPT !.nodes[g].color = Red], g)

\* lines 116-118 (and, mirrored, 132-134): n.parent.color = Black,
\* n.parent.parent.color = Red, rotate around n.parent.parent
insertLine(t, n, leftSide) ==
    LET p == t.nodes[n].parent
    IN IF p = Nil THEN Fault(t)
       ELSE LET g == t.nodes[p].parent
            IN IF g = Nil THEN Fault(t)
               ELSE IF leftSide
                    THEN rotateRight([t EXCEPT !.nodes[p].color = Black,
                                               !.nodes[g].color = Red], g)
                    ELSE rotateLeft([t EXCEPT !.nodes[p].color = Black,
                                              !.nodes[g].color = Red], g)

\* the for loop of lines 103-140; the result is the tree when the loop ends
RECURSIVE insertFixupLoop(_, _)

\* lines 137-139, the end of an iteration: break at the root, else loop
insertFixupNext(t, n) ==
    IF t.fault THEN t
    ELSE IF n = t.root THEN AtHead(t, n)
    ELSE insertFixupLoop(t, n)

\* mutant of insertFixupLine: the rotation cases leave the tree as it is
insertFixupLineSkipped(t, n, leftSide) == t

\* mutant of insertFixupLine: line 116 is missing, the parent stays Red
\* and the loop goes on after the rotation
insertFixupLineParentRed(t, n, leftSide) ==
    IF t.fault THEN t
    ELSE insertFixupNext(insertLineParentStaysRed(t, n, leftSide), n)

\* lines 116-118 once the triangle, if any, is rotated into a line
insertFixupLine(t, n, leftSide) ==
    IF t.fault THEN t ELSE insertFixupNext(insertLine(t, n, leftSide), n)

\* mutant of insertFixupLoop: the mirrored cases of lines 120-135 are
\* missing, and the loop ends when the parent is a right child
insertFixupLoopLeftOnly(t, n) ==
    LET p == t.nodes[n].parent
    IN IF ~(p # Nil /\ t.nodes[p].color = Red) THEN t
       ELSE LET g == t.nodes[p].parent
            IN IF g = Nil THEN Fault(Tick(t, p))
               ELSE IF p # t.nodes[g].left THEN t
               ELSE LET uncle == t.nodes[g].right
                    IN IF uncle # Nil /\ t.nodes[uncle].color = Red
                       THEN insertFixupNext(
                                [Tick(t, p) EXCEPT !.nodes[p].color = Black,
                                                !.nodes[uncle].color = Black,
                                                !.nodes[g].color = Red], g)
                       ELSE IF n = t.nodes[p].right
                       THEN insertFixupLine(rotateLeft(Tick(t, p), p), p, TRUE)
                       ELSE insertFixupLine(Tick(t, p), n, TRUE)

\* mutant of insertFixupLoop: the loop is not entered
insertFixupLoopSkipped(t, n) == t

insertFixupLoop(t, n) ==
    LET p == t.nodes[n].parent
    IN IF ~(p # Nil /\ t.nodes[p].color = Red) THEN AtHead(t, n)
       ELSE LET g == t.nodes[p].parent
            IN IF g = Nil THEN Fault(Tick(AtHead(t, n), p))
               ELSE LET leftSide == (p = t.nodes[g].left)
                        uncle == IF leftSide THEN t.nodes[g].right ELSE t.nodes[g].left
                    IN IF uncle # Nil /\ t.nodes[uncle].color = Red
                       THEN insertFixupNext(
                                [Tick(AtHead(t, n), p) EXCEPT
                                     !.nodes[p].color = Black,
                                     !.nodes[uncle].color = Black,
                                     !.nodes[g].color = Red], g)
                       ELSE IF leftSide /\ n = t.nodes[p].right
                       THEN insertFixupLine(rotateLeft(Tick(AtHead(t, n), p), p), p, leftSide)
                       ELSE IF ~leftSide /\ n = t.nodes[p].left
                       THEN insertFixupLine(rotateRight(Tick(AtHead(t, n), p), p), p, leftSide)
                       ELSE insertFixupLine(Tick(AtHead(t, n), p), n, leftSide)

\* mutant of insertFixupRoot: the root keeps the color the loop gave it
insertFixupRootSkipped(t) == t

\* line 141: t.root.color = Black
insertFixupRoot(t) ==
    IF t.fault THEN t
    ELSE IF t.root = Nil THEN Fault(t)
    ELSE [t EXCEPT !.nodes[t.root].color = Black]

\* mutant of insertFixup: the root is not recolored Black after the loop
insertFixupRootKeepsColor(t, n) ==
    IF t.nodes[n].parent = Nil THEN [t EXCEPT !.nodes[n].color = Black]
    ELSE insertFixupLoop(t, n)

insertFixup(t, n) ==
    IF t.nodes[n].parent = Nil THEN [t EXCEPT !.nodes[n].color = Black]
    ELSE insertFixupRoot(insertFixupLoop(t, n))

\* ----------------------------------------------------------------- Insert
\* the descent of lines 70-83: the last node visited, or a duplicate met
RECURSIVE insertDescend(_, _, _, _)
insertDescend(t, value, current, parent) ==
    IF current = Nil THEN [dup |-> FALSE, parent |-> parent]
    ELSE LET cmp == t.compare[<<value, t.nodes[current].value>>]
         IN IF cmp = 0 THEN [dup |-> TRUE, parent |-> current]
            ELSE IF cmp < 0
                 THEN insertDescend(t, value, t.nodes[current].left, current)
                 ELSE insertDescend(t, value, t.nodes[current].right, current)

\* mutant of Insert: no Search first, and size counted before the descent
InsertCountsFirst(t, value) ==
    LET id == alloc(t)
        t0 == [t EXCEPT !.nodes = (id :> newNode(value)) @@ t.nodes,
                        !.size = @ + 1]
    IN IF t0.root = Nil
       THEN insertFixup([t0 EXCEPT !.root = id], id)
       ELSE LET d == insertDescend(t0, value, t0.root, Nil)
            IN IF d.dup THEN t0
               ELSE LET parent == d.parent
                        t1 == [t0 EXCEPT !.nodes[id].parent = parent]
                        t2 == IF t1.compare[<<value, t1.nodes[parent].value>>] < 0
                              THEN [t1 EXCEPT !.nodes[parent].left = id]
                              ELSE [t1 EXCEPT !.nodes[parent].right = id]
                    IN insertFixup(t2, id)

\* mutant of Insert: the new node is linked on the other side of its parent
InsertWrongSide(t, value) ==
    IF Search(t, value) THEN t
    ELSE LET id == alloc(t)
             t0 == [t EXCEPT !.nodes = (id :> newNode(value)) @@ t.nodes]
         IN IF t0.root = Nil
            THEN insertFixup([t0 EXCEPT !.root = id, !.size = @ + 1], id)
            ELSE LET d == insertDescend(t0, value, t0.root, Nil)
                 IN IF d.dup THEN t0
                    ELSE LET parent == d.parent
                             t1 == [t0 EXCEPT !.nodes[id].parent = parent]
                             t2 == IF t1.compare[<<value, t1.nodes[parent].value>>] > 0
                                   THEN [t1 EXCEPT !.nodes[parent].left = id]
                                   ELSE [t1 EXCEPT !.nodes[parent].right = id]
                         IN insertFixup([t2 EXCEPT !.size = @ + 1], id)

Insert(t, value) ==
    IF Search(t, value) THEN t
    ELSE LET id == alloc(t)
             t0 == [t EXCEPT !.nodes = (id :> newNode(value)) @@ t.nodes]
         IN IF t0.root = Nil
            THEN insertFixup([t0 EXCEPT !.root = id, !.size = @ + 1], id)
            ELSE LET d == insertDescend(t0, value, t0.root, Nil)
                 IN IF d.dup THEN t0
                    ELSE LET parent == d.parent
                             t1 == [t0 EXCEPT !.nodes[id].parent = parent]
                             t2 == IF t1.compare[<<value, t1.nodes[parent].value>>] < 0
                                   THEN [t1 EXCEPT !.nodes[parent].left = id]
                                   ELSE [t1 EXCEPT !.nodes[parent].right = id]
                         IN insertFixup([t2 EXCEPT !.size = @ + 1], id)

\* ------------------------------------------------------- InOrderTraversal
\* the values handed to fn, in the order of the calls
\* mutant of inorder: the node is visited before its left subtree
RECURSIVE inorderNodeFirst(_, _)
inorderNodeFirst(t, n) ==
    IF n = Nil THEN <<>>
    ELSE <<t.nodes[n].value>> \o inorderNodeFirst(t, t.nodes[n].left)
             \o inorderNodeFirst(t, t.nodes[n].right)

RECURSIVE inorder(_, _)
inorder(t, n) ==
    IF n = Nil THEN <<>>
    ELSE inorder(t, t.nodes[n].left) \o <<t.nodes[n].value>>
             \o inorder(t, t.nodes[n].right)

InOrderTraversal(t) == inorder(t, t.root)

\* ----------------------------------------------------------------- Height
\* mutant of height: the right subtree is not measured
RECURSIVE heightLeftOnly(_, _)
heightLeftOnly(t, n) ==
    IF n = Nil THEN -1 ELSE heightLeftOnly(t, t.nodes[n].left) + 1

\* mutant of height: an absent node counts as a node without children
RECURSIVE heightNilZero(_, _)
heightNilZero(t, n) ==
    IF n = Nil THEN 0
    ELSE LET leftHeight == heightNilZero(t, t.nodes[n].left)
             rightHeight == heightNilZero(t, t.nodes[n].right)
         IN IF leftHeight > rightHeight THEN leftHeight + 1 ELSE rightHeight + 1

RECURSIVE height(_, _)
height(t, n) ==
    IF n = Nil THEN -1
    ELSE LET leftHeight == height(t, t.nodes[n].left)
             rightHeight == height(t, t.nodes[n].right)
         IN IF leftHeight > rightHeight THEN leftHeight + 1 ELSE rightHeight + 1

Height(t) == height(t, t.root)

\* --------------------------------------------------------------- findNode
RECURSIVE findFrom(_, _, _)
findFrom(t, value, current) ==
    IF current = Nil THEN Nil
    ELSE LET cmp == t.compare[<<value, t.nodes[current].value>>]
         IN IF cmp = 0 THEN current
            ELSE IF cmp < 0 THEN findFrom(t, value, t.nodes[current].left)
            ELSE findFrom(t, value, t.nodes[current].right)

findNode(t, value) == findFrom(t, value, t.root)

\* ------------------------------------------------------ successor, minimum
\* mutant of minimum: no descent to the left
minimumNoDescent(t, n) == n

RECURSIVE minimum(_, _)
minimum(t, n) ==
    IF t.nodes[n].left # Nil THEN minimum(t, t.nodes[n].left) ELSE n

\* the loop of lines 283-286
RECURSIVE successorUp(_, _, _)
successorUp(t, n, y) ==
    IF y # Nil /\ n = t.nodes[y].right THEN successorUp(t, y, t.nodes[y].parent)
    ELSE y

\* mutant of successor: the right child stands for the least node below it
successorRightChild(t, n) ==
    IF t.nodes[n].right # Nil THEN t.nodes[n].right
    ELSE successorUp(t, n, t.nodes[n].parent)

successor(t, n) ==
    IF t.nodes[n].right # Nil THEN minimum(t, t.nodes[n].right)
    ELSE successorUp(t, n, t.nodes[n].parent)

\* ------------------------------------------------------------ deleteFixup
\* n == nil || n.color == Black
isBlack(t, n) == n = Nil \/ t.nodes[n].color = Black

\* the sibling of n below parent on the side the branch reads it from
\* (lines 303, 308, 322 and, mirrored, 334, 339, 353)
\* mutant of sibling: the child on the side of n is read
siblingSameSide(t, parent, leftSide) ==
    IF leftSide THEN t.nodes[parent].left ELSE t.nodes[parent].right

sibling(t, parent, leftSide) ==
    IF leftSide THEN t.nodes[parent].right ELSE t.nodes[parent].left

\* mutant of deleteCase1: line 306 is missing, the parent is not colored
\* Red
deleteCase1ParentStaysBlack(t, parent, w, leftSide) ==
    IF leftSide
    THEN rotateLeft([t EXCEPT !.nodes[w].color = Black], parent)
    ELSE rotateRight([t EXCEPT !.nodes[w].color = Black], parent)

\* Case 1 (lines 304-307, mirrored 335-338): the sibling w is Red
deleteCase1(t, parent, w, leftSide) ==
    IF leftSide
    THEN rotateLeft([t EXCEPT !.nodes[w].color = Black,
                              !.nodes[parent].color = Red], parent)
    ELSE rotateRight([t EXCEPT !.nodes[w].color = Black,
                               !.nodes[parent].color = Red], parent)

\* mutant of deleteCase3: the rotations of line 320 and line 351 are
\* swapped, w is rotated towards the far side
deleteCase3WrongWay(t, w, leftSide) ==
    LET near == IF leftSide THEN t.nodes[w].left ELSE t.nodes[w].right
        t1 == IF near # Nil THEN [t EXCEPT !.nodes[near].color = Black] ELSE t
    IN IF leftSide THEN rotateLeft([t1 EXCEPT !.nodes[w].color = Red], w)
       ELSE rotateRight([t1 EXCEPT !.nodes[w].color = Red], w)

\* Case 3 (lines 316-321, mirrored 347-352): the far child of w is Black
deleteCase3(t, w, leftSide) ==
    LET near == IF leftSide THEN t.nodes[w].left ELSE t.nodes[w].right
        t1 == IF near # Nil THEN [t EXCEPT !.nodes[near].color = Black] ELSE t
    IN IF leftSide THEN rotateRight([t1 EXCEPT !.nodes[w].color = Red], w)
       ELSE rotateLeft([t1 EXCEPT !.nodes[w].color = Red], w)

\* mutant of deleteCase4: lines 326-328 are missing, the far child of w is
\* not colored Black
deleteCase4FarStaysRed(t, parent, w, leftSide) ==
    IF t.fault THEN t
    ELSE IF w = Nil THEN Fault(t)
    ELSE LET t1 == [t EXCEPT !.nodes[w].color = t.nodes[parent].color,
                             !.nodes[parent].color = Black]
         IN IF leftSide THEN rotateLeft(t1, parent)
            ELSE rotateRight(t1, parent)

\* Case 4 (lines 324-329, mirrored 355-360)
deleteCase4(t, parent, w, leftSide) ==
    IF t.fault THEN t
    ELSE IF w = Nil THEN Fault(t)
    ELSE LET t1 == [t EXCEPT !.nodes[w].color = t.nodes[parent].color,
                             !.nodes[parent].color = Black]
             far == IF leftSide THEN t.nodes[w].right ELSE t.nodes[w].left
         IN IF far # Nil
            THEN IF leftSide
                 THEN rotateLeft([t1 EXCEPT !.nodes[far].color = Black], parent)
                 ELSE rotateRight([t1 EXCEPT !.nodes[far].color = Black], parent)
            ELSE IF leftSide THEN rotateLeft(t1, parent)
                 ELSE rotateRight(t1, parent)

\* line 322 (353): w = parent.right (parent.left) after Case 3, then Case 4
deleteCase4AfterCase3(t, parent, leftSide) ==
    IF t.fault THEN t
    ELSE deleteCase4(t, parent, sibling(t, parent, leftSide), leftSide)

\* lines 316-331 (347-362): Case 3 if the far child is Black, then Case 4
deleteCases34(t, parent, w, leftSide) ==
    IF isBlack(t, IF leftSide THEN t.nodes[w].right ELSE t.nodes[w].left)
    THEN deleteCase4AfterCase3(deleteCase3(t, w, leftSide), parent, leftSide)
    ELSE deleteCase4(t, parent, w, leftSide)

\* the for loop of lines 301-365: the tree and n when the loop ends
RECURSIVE deleteFixupLoop(_, _, _)

\* lines 330-331 (361-362): n = t.root; break
deleteFixupBreak(t, n) == [t |-> t, n |-> IF t.fault THEN n ELSE t.root]

\* mutant of deleteCases234: Case 2 recolors the sibling and stays at n
deleteCase2Stays(t, n, parent, w, leftSide) ==
    IF t.fault THEN [t |-> t, n |-> n]
    ELSE IF w = Nil THEN [t |-> Fault(t), n |-> n]
    ELSE IF isBlack(t, t.nodes[w].left) /\ isBlack(t, t.nodes[w].right)
    THEN deleteFixupLoop([t EXCEPT !.nodes[w].color = Red], n, parent)
    ELSE deleteFixupBreak(deleteCases34(t, parent, w, leftSide), n)

\* lines 310-332 (341-363): Case 2 moves up, Cases 3 and 4 end the loop
deleteCases234(t, n, parent, w, leftSide) ==
    IF t.fault THEN [t |-> t, n |-> n]
    ELSE IF w = Nil THEN [t |-> Fault(t), n |-> n]
    ELSE IF isBlack(t, t.nodes[w].left) /\ isBlack(t, t.nodes[w].right)
    THEN deleteFixupLoop([t EXCEPT !.nodes[w].color = Red],
                         parent, t.nodes[parent].parent)
    ELSE deleteFixupBreak(deleteCases34(t, parent, w, leftSide), n)

\* mutant of deleteAfterCase1: after the rotation of Case 1 the sibling is
\* read on the side of n
deleteAfterCase1SameSide(t, n, parent, leftSide) ==
    IF t.fault THEN [t |-> t, n |-> n]
    ELSE deleteCases234(t, n, parent, sibling(t, parent, ~leftSide), leftSide)

\* line 308 (339): w = parent.right (parent.left) after Case 1
deleteAfterCase1(t, n, parent, leftSide) ==
    IF t.fault THEN [t |-> t, n |-> n]
    ELSE deleteCases234(t, n, parent, sibling(t, parent, leftSide), leftSide)

deleteFixupLoop(t, n, parent) ==
    IF ~(n # t.root /\ isBlack(t, n)) THEN [t |-> t, n |-> n]
    ELSE IF parent = Nil THEN [t |-> Fault(Tick(t, parent)), n |-> n]
    ELSE LET leftSide == (n = t.nodes[parent].left)
             w == sibling(t, parent, leftSide)
         IN IF w = Nil THEN [t |-> Fault(Tick(t, parent)), n |-> n]
            ELSE IF t.nodes[w].color = Red
            THEN deleteAfterCase1(deleteCase1(Tick(t, parent), parent, w, leftSide),
                                  n, parent, leftSide)
            ELSE deleteCases234(Tick(t, parent), n, parent, w, leftSide)

\* mutant of deleteFixupEnd: the node the loop stopped at keeps its color
deleteFixupEndKeepsColor(r) == r.t

\* lines 366-368: if n != nil, n.color = Black
deleteFixupEnd(r) ==
    IF r.t.fault \/ r.n = Nil THEN r.t
    ELSE [r.t EXCEPT !.nodes[r.n].color = Black]

deleteFixup(t, n, parent) == deleteFixupEnd(deleteFixupLoop(t, n, parent))

\* ------------------------------------------------------------- deleteNode
\* lines 244-248: the node to unlink
\* mutant of unlinked: the node found is unlinked whatever its children
unlinkedIsFound(t, n) == n

unlinked(t, n) ==
    IF t.nodes[n].left = Nil \/ t.nodes[n].right = Nil THEN n
    ELSE successor(t, n)

\* mutant of splice: x.parent is left as it was
spliceKeepsParent(t, y) ==
    LET x == IF t.nodes[y].left # Nil THEN t.nodes[y].left ELSE t.nodes[y].right
        yp == t.nodes[y].parent
    IN IF yp = Nil THEN [t EXCEPT !.root = x]
       ELSE IF y = t.nodes[yp].left THEN [t EXCEPT !.nodes[yp].left = x]
       ELSE [t EXCEPT !.nodes[yp].right = x]

\* lines 250-266: x, the child of y, takes the place of y
splice(t, y) ==
    LET x == IF t.nodes[y].left # Nil THEN t.nodes[y].left ELSE t.nodes[y].right
        yp == t.nodes[y].parent
        t1 == IF x # Nil THEN [t EXCEPT !.nodes[x].parent = yp] ELSE t
    IN IF yp = Nil THEN [t1 EXCEPT !.root = x]
       ELSE IF y = t.nodes[yp].left THEN [t1 EXCEPT !.nodes[yp].left = x]
       ELSE [t1 EXCEPT !.nodes[yp].right = x]

\* mutant of deleteRebalance: the rebalancing runs whatever the color of y
deleteRebalanceAlways(t, x, y) == deleteFixup(t, x, t.nodes[y].parent)

\* mutant of deleteRebalance: a Black node is unlinked without rebalancing
deleteRebalanceSkipped(t, x, y) == t

\* lines 272-274: if y.color == Black, deleteFixup(x, y.parent)
deleteRebalance(t, x, y) ==
    IF t.nodes[y].color = Black THEN deleteFixup(t, x, t.nodes[y].parent)
    ELSE t

\* mutant of deleteUnlink: the successor's value is not copied into n
deleteUnlinkKeepsValue(t, n, y) ==
    LET x == IF t.nodes[y].left # Nil THEN t.nodes[y].left ELSE t.nodes[y].right
    IN deleteRebalance(splice(t, y), x, y)

\* lines 250-274 for the node y to unlink
deleteUnlink(t, n, y) ==
    LET x == IF t.nodes[y].left # Nil THEN t.nodes[y].left ELSE t.nodes[y].right
    IN IF y # n
       THEN deleteRebalance([splice(t, y) EXCEPT !.nodes[n].value = t.nodes[y].value],
                            x, y)
       ELSE deleteRebalance(splice(t, y), x, y)

deleteNode(t, n) ==
    IF unlinked(t, n) = Nil THEN Fault(t)
    ELSE deleteUnlink(t, n, unlinked(t, n))

\* ----------------------------------------------------------------- Delete
\* mutant of deleted: the node is removed and counted, but false is returned
deletedReportsFalse(t) ==
    IF t.fault THEN [t |-> t, found |-> FALSE]
    ELSE [t |-> [t EXCEPT !.size = @ - 1], found |-> FALSE]

\* lines 220-221: t.size--; return true
deleted(t) ==
    IF t.fault THEN [t |-> t, found |-> FALSE]
    ELSE [t |-> [t EXCEPT !.size = @ - 1], found |-> TRUE]

\* mutant of Delete: deleteNode is called without the nil check
DeleteNoNilCheck(t, value) ==
    IF findNode(t, value) = Nil THEN deleted(Fault(t))
    ELSE deleted(deleteNode(t, findNode(t, value)))

\* mutant of Delete: size is not decremented
DeleteKeepsSize(t, value) ==
    IF findNode(t, value) = Nil THEN [t |-> t, found |-> FALSE]
    ELSE [t |-> deleteNode(t, findNode(t, value)), found |-> TRUE]

\* mutant of Delete: Search guards the call, and the node is looked up by
\* comparing the stored value with the given one
RECURSIVE findMirrored(_, _, _)
findMirrored(t, value, current) ==
    IF current = Nil THEN Nil
    ELSE LET cmp == t.compare[<<t.nodes[current].value, value>>]
         IN IF cmp = 0 THEN current
            ELSE IF cmp > 0 THEN findMirrored(t, value, t.nodes[current].left)
            ELSE findMirrored(t, value, t.nodes[current].right)

DeleteMirroredLookup(t, value) ==
    IF ~Search(t, value) THEN [t |-> t, found |-> FALSE]
    ELSE IF findMirrored(t, value, t.root) = Nil THEN deleted(Fault(t))
    ELSE deleted(deleteNode(t, findMirrored(t, value, t.root)))

\* the tree after the call and the boolean returned
Delete(t, value) ==
    IF findNode(t, value) = Nil THEN [t |-> t, found |-> FALSE]
    ELSE deleted(deleteNode(t, findNode(t, value)))

\* ---------------------------------------------------------- state machine
\* tree: the RedBlackTree and the nodes of the heap
\* op, arg, ret: the last call made, its argument and what it returned
\*               (for InOrderTraversal, the sequence of values handed to fn)
\* pre: the tree when the last call was made
\* post: the tree as the last call left it, before the collector ran
\* members: the set a reference implementation holds after the same calls
\* inserted: the values a caller on a round trip has inserted, in the order
\*           of its Insert calls; other callers keep no such log
\* threads: for callers that share the tree without a lock, where each of
\*          them stands in its call and what it holds in its locals; the
\*          callers that make one call at a time keep it empty
VARIABLES tree, op, arg, ret, pre, post, members, inserted, threads
vars == <<tree, op, arg, ret, pre, post, members, inserted, threads>>

\* what arg and ret hold for a call without an argument or a result
None == "none"

Init ==
    /\ tree \in {New(c) : c \in Comparators}
    /\ op = "New"
    /\ arg = None
    /\ ret = None
    /\ pre = tree
    /\ post = tree
    /\ members = {}
    /\ inserted = <<>>
    /\ threads = <<>>

\* Insert(v) is called and returns
DoInsert(v) ==
    /\ ~tree.fault
    /\ post' = Insert(tree, v)
    /\ tree' = collect(post')
    /\ op' = "Insert" /\ arg' = v /\ ret' = None /\ pre' = tree
    /\ members' = members \cup {v}

CallInsert(v) ==
    \* a full heap has room only for the Insert that allocates nothing
    /\ Cardinality(DOMAIN tree.nodes) >= MaxNodes => Search(tree, v)
    /\ DoInsert(v)

CallDelete(v) ==
    /\ ~tree.fault
    /\ \E r \in {Delete(tree, v)} :
          post' = r.t /\ tree' = collect(r.t) /\ ret' = r.found
    /\ op' = "Delete" /\ arg' = v /\ pre' = tree
    /\ members' = members \ {v}

CallClear ==
    /\ ~tree.fault
    /\ post' = Clear(tree)
    /\ tree' = collect(post')
    /\ op' = "Clear" /\ arg' = None /\ ret' = None /\ pre' = tree
    /\ members' = {}

CallSearch(v) ==
    /\ ~tree.fault
    /\ ret' = Search(tree, v)
    /\ op' = "Search" /\ arg' = v /\ pre' = tree
    /\ post' = tree
    /\ UNCHANGED <<tree, members>>

\* mutant of CallInOrderTraversal: the nodes handed to the visitor are
\* taken out of the tree
CallInOrderTraversalDraining ==
    /\ ~tree.fault
    /\ ret' = InOrderTraversal(tree)
    /\ op' = "InOrderTraversal" /\ arg' = None /\ pre' = tree
    /\ post' = Clear(tree)
    /\ tree' = collect(post')
    /\ UNCHANGED members

CallInOrderTraversal ==
    /\ ~tree.fault
    /\ ret' = InOrderTraversal(tree)
    /\ op' = "InOrderTraversal" /\ arg' = None /\ pre' = tree
    /\ post' = tree
    /\ UNCHANGED <<tree, members>>

CallHeight ==
    /\ ~tree.fault
    /\ ret' = Height(tree)
    /\ op' = "Height" /\ arg' = None /\ pre' = tree
    /\ post' = tree
    /\ UNCHANGED <<tree, members>>

CallLen ==
    /\ ~tree.fault
    /\ ret' = TreeLen(tree)
    /\ op' = "Len" /\ arg' = None /\ pre' = tree
    /\ post' = tree
    /\ UNCHANGED <<tree, members>>

CallIsEmpty ==
    /\ ~tree.fault
    /\ ret' = IsEmpty(tree)
    /\ op' = "IsEmpty" /\ arg' = None /\ pre' = tree
    /\ post' = tree
    /\ UNCHANGED <<tree, members>>

\* any caller: inserted, the log of a round trip, is not written
Next ==
    \/ \E v \in Values : CallInsert(v) /\ UNCHANGED <<inserted, threads>>
    \/ \E v \in Values : CallDelete(v) /\ UNCHANGED <<inserted, threads>>
    \/ CallClear /\ UNCHANGED <<inserted, threads>>
    \/ \E v \in Values : CallSearch(v) /\ UNCHANGED <<inserted, threads>>
    \/ CallInOrderTraversal /\ UNCHANGED <<inserted, threads>>
    \/ CallHeight /\ UNCHANGED <<inserted, threads>>
    \/ CallLen /\ UNCHANGED <<inserted, threads>>
    \/ CallIsEmpty /\ UNCHANGED <<inserted, threads>>

Spec == Init /\ [][Next]_vars

\* ------------------------------------------------ a caller whose keys grow:
\* every Insert passes a value above the stored ones, as the keys of a log
\* do, and every Delete a stored value; the trees have up to MaxGrow nodes
InitGrow ==
    /\ tree \in {New(AscendingOn(GrowValues)), New(DescendingOn(GrowValues))}
    /\ op = "New"
    /\ arg = None
    /\ ret = None
    /\ pre = tree
    /\ post = tree
    /\ members = {}
    /\ inserted = <<>>
    /\ threads = <<>>

GrowInsert(v) ==
    /\ \A m \in members : m < v
    /\ DoInsert(v)
    /\ UNCHANGED <<inserted, threads>>

GrowDelete(v) ==
    /\ v \in members
    /\ CallDelete(v)
    /\ UNCHANGED <<inserted, threads>>

NextGrow ==
    \/ \E v \in GrowValues : GrowInsert(v)
    \/ \E v \in GrowValues : GrowDelete(v)

SpecGrow == InitGrow /\ [][NextGrow]_vars

\* ------------------------------------------------- a caller on a round trip:
\* it inserts distinct values in some order, then deletes them in some
\* order; inserted is the sequence of the values it has inserted
InitTrip ==
    /\ tree \in {New(AscendingOn(TripValues)), New(DescendingOn(TripValues))}
    /\ op = "New"
    /\ arg = None
    /\ ret = None
    /\ pre = tree
    /\ post = tree
    /\ members = {}
    /\ inserted = <<>>
    /\ threads = <<>>

TripInsert(v) ==
    \* nothing is deleted yet, and v is not inserted yet
    /\ Cardinality(members) = Len(inserted)
    /\ v \notin members
    /\ DoInsert(v)
    /\ inserted' = Append(inserted, v)
    /\ UNCHANGED threads

TripDelete(v) ==
    /\ v \in members
    /\ CallDelete(v)
    /\ UNCHANGED <<inserted, threads>>

NextTrip ==
    \/ \E v \in TripValues : TripInsert(v)
    \/ \E v \in TripValues : TripDelete(v)

SpecTrip == InitTrip /\ [][NextTrip]_vars

\* a caller of the rotations: it inserts distinct values from 1..MaxRotate
\* and then rotates at nodes that have the child the rotation lifts, as
\* insertFixup and deleteFixup do between their recolorings
InitRotate ==
    /\ tree \in {New(AscendingOn(RotateValues)), New(DescendingOn(RotateValues))}
    /\ op = "New"
    /\ arg = None
    /\ ret = None
    /\ pre = tree
    /\ post = tree
    /\ members = {}
    /\ inserted = <<>>
    /\ threads = <<>>

RotateInsert(v) ==
    /\ op \in {"New", "Insert"}
    /\ v \notin members
    /\ DoInsert(v)
    /\ UNCHANGED <<inserted, threads>>

\* rotateLeft(x) is called at the node x, which has a right child
CallRotateLeft(x) ==
    /\ ~tree.fault /\ x \in DOMAIN tree.nodes /\ tree.nodes[x].right # Nil
    /\ post' = rotateLeft(tree, x)
    /\ tree' = collect(post')
    /\ op' = "rotateLeft" /\ arg' = x /\ ret' = None /\ pre' = tree
    /\ UNCHANGED <<members, inserted, threads>>

\* rotateRight(y) is called at the node y, which has a left child
CallRotateRight(y) ==
    /\ ~tree.fault /\ y \in DOMAIN tree.nodes /\ tree.nodes[y].left # Nil
    /\ post' = rotateRight(tree, y)
    /\ tree' = collect(post')
    /\ op' = "rotateRight" /\ arg' = y /\ ret' = None /\ pre' = tree
    /\ UNCHANGED <<members, inserted, threads>>

NextRotate ==
    \/ \E v \in RotateValues : RotateInsert(v)
    \/ \E x \in RotateNodes : CallRotateLeft(x)
    \/ \E y \in RotateNodes : CallRotateRight(y)

SpecRotate == InitRotate /\ [][NextRotate]_vars

\* ------------------------------------------- a caller whose comparator is no
\* total order
InitWild ==
    /\ tree \in {New(c) : c \in WildComparators}
    /\ op = "New"
    /\ arg = None
    /\ ret = None
    /\ pre = tree
    /\ post = tree
    /\ members = {}
    /\ inserted = <<>>
    /\ threads = <<>>

WildInsert(v) ==
    \* a full heap has room only for the Insert that allocates nothing
    /\ Cardinality(DOMAIN tree.nodes) >= MaxWildNodes => Search(tree, v)
    /\ DoInsert(v)
    /\ UNCHANGED <<inserted, threads>>

WildDelete(v) == CallDelete(v) /\ UNCHANGED <<inserted, threads>>

WildSearch(v) == CallSearch(v) /\ UNCHANGED <<inserted, threads>>

NextWild ==
    \/ \E v \in WildValues : WildInsert(v)
    \/ \E v \in WildValues : WildDelete(v)
    \/ \E v \in WildValues : WildSearch(v)

SpecWild == InitWild /\ [][NextWild]_vars

\* ------------------------------------------------- what the claims speak of
\* the nodes reached from the nodes of S through child links
RECURSIVE childClosure(_, _)
childClosure(t, S) ==
    LET S2 == (S \cup {t.nodes[n].left : n \in S}
                 \cup {t.nodes[n].right : n \in S}) \ {Nil}
    IN IF S2 = S THEN S ELSE childClosure(t, S2)

\* the nodes of the subtree rooted at n, and the nodes of the tree
Subtree(t, n) == childClosure(t, {n} \ {Nil})
Reachable(t) == Subtree(t, t.root)

\* the values the tree stores
Stored(t) == {t.nodes[n].value : n \in Reachable(t)}

\* the numbers of Black nodes on the paths from n down to an absent child;
\* a path of more than depth nodes runs in a cycle and counts as two numbers
RECURSIVE blackCounts(_, _, _)
blackCounts(t, n, depth) ==
    IF n = Nil THEN {0}
    ELSE IF depth = 0 THEN {0, 1}
    ELSE LET below == blackCounts(t, t.nodes[n].left, depth - 1)
                        \cup blackCounts(t, t.nodes[n].right, depth - 1)
         IN {c + (IF t.nodes[n].color = Black THEN 1 ELSE 0) : c \in below}

BlackHeights(t, n) == blackCounts(t, n, Cardinality(DOMAIN t.nodes))

\* the number of levels below the nodes of level, counted from k; a level
\* holds the children of the level above it
RECURSIVE deepestLevel(_, _, _)
deepestLevel(t, level, k) ==
    LET below == UNION {{t.nodes[n].left, t.nodes[n].right} : n \in level}
                     \ {Nil}
    IN IF below = {} THEN k ELSE deepestLevel(t, below, k + 1)

\* the number of edges on the longest path from n down to a leaf
PathEdges(t, n) == IF n = Nil THEN -1 ELSE deepestLevel(t, {n}, 0)

\* the values of S in ascending order under compare
RECURSIVE Sorted(_, _)
Sorted(S, compare) ==
    IF S = {} THEN <<>>
    ELSE LET least == CHOOSE m \in S :
                          \A x \in S \ {m} : compare[<<m, x>>] < 0
         IN <<least>> \o Sorted(S \ {least}, compare)

\* the child links below the root of t form a tree: no node has the root as
\* a child, every other node is the child of one node on one side, and no
\* node is found below itself
OwnershipTree(t) ==
    /\ \A m \in Reachable(t) :
          t.nodes[m].left # t.root /\ t.nodes[m].right # t.root
    /\ \A n \in Reachable(t) \ {t.root} :
          Cardinality({m \in Reachable(t) : t.nodes[m].left = n})
            + Cardinality({m \in Reachable(t) : t.nodes[m].right = n}) = 1
    /\ \A n \in Reachable(t) :
          n \notin Subtree(t, t.nodes[n].left) \cup Subtree(t, t.nodes[n].right)

\* the parent pointers of t mirror its child links
ParentsConsistent(t) ==
    /\ t.root # Nil => t.nodes[t.root].parent = Nil
    /\ \A n \in Reachable(t) :
          /\ t.nodes[n].left # Nil => t.nodes[t.nodes[n].left].parent = n
          /\ t.nodes[n].right # Nil => t.nodes[t.nodes[n].right].parent = n

\* the node a Delete(value) on t unlinks, and its only child, if any
UnlinkedBy(t, value) == unlinked(t, findNode(t, value))
ChildOf(t, y) ==
    IF t.nodes[y].left # Nil THEN t.nodes[y].left ELSE t.nodes[y].right

\* the sequence seq without the entries equal to v
Without(seq, v) ==
    LET Other(e) == e # v
    IN SelectSeq(seq, Other)

\* the last call was a Delete that found its value in a node with two
\* children
TwoChildDelete ==
    /\ op = "Delete" /\ ret = TRUE
    /\ pre.nodes[findNode(pre, arg)].left # Nil
    /\ pre.nodes[findNode(pre, arg)].right # Nil

\* ---------------------------------------------------------------- claims

\* C1: when a call has returned, every path from the root, and from every
\* node, down to an absent child passes through the same number of Black
\* nodes.
BlackHeightPathInvariant ==
    /\ Cardinality(BlackHeights(tree, tree.root)) = 1
    /\ \A n \in Reachable(tree) :
          BlackHeights(tree, tree.nodes[n].left)
              = BlackHeights(tree, tree.nodes[n].right)

\* a Delete has removed a node from a tree whose paths hold two Black nodes
BlackHeightWitness ==
    /\ op = "Delete" /\ ret = TRUE
    /\ BlackHeights(pre, pre.root) = {2}
    /\ BlackHeights(tree, tree.root) = {2}
    /\ tree.size >= 4

\* C2: when a call has returned, no Red node has a Red child.
NoRedRedEdge ==
    \A n \in Reachable(tree) :
        tree.nodes[n].color = Red =>
            /\ isBlack(tree, tree.nodes[n].left)
            /\ isBlack(tree, tree.nodes[n].right)

\* an Insert has linked a node below a Red parent, and Red nodes remain
NoRedRedWitness ==
    /\ op = "Insert" /\ tree.size = pre.size + 1
    /\ LET parent == insertDescend(pre, arg, pre.root, Nil).parent
       IN parent # Nil /\ pre.nodes[parent].color = Red
    /\ \E n \in Reachable(tree) : tree.nodes[n].color = Red

\* C3: when a call has returned, the root, if present, is Black.
RootIsBlack ==
    tree.root # Nil => tree.nodes[tree.root].color = Black

\* a call has put another node, with another value, at the root
RootIsBlackWitness ==
    /\ op \in {"Insert", "Delete"}
    /\ pre.root # Nil /\ post.root # Nil /\ post.root # pre.root
    /\ post.nodes[post.root].value # pre.nodes[pre.root].value

\* C4: the tree is a binary search tree under the comparator: the values of
\* a node's left subtree compare less than the node's value and those of its
\* right subtree compare greater.
ValidBST ==
    \A n \in Reachable(tree) :
        /\ \A m \in Subtree(tree, tree.nodes[n].left) :
              tree.compare[<<tree.nodes[m].value, tree.nodes[n].value>>] < 0
        /\ \A m \in Subtree(tree, tree.nodes[n].right) :
              tree.compare[<<tree.nodes[m].value, tree.nodes[n].value>>] > 0

\* a Delete has removed the value of a node that had two children
ValidBSTWitness ==
    /\ op = "Delete" /\ ret = TRUE
    /\ LET n == findNode(pre, arg)
       IN pre.nodes[n].left # Nil /\ pre.nodes[n].right # Nil
    /\ tree.size >= 3

\* C5: the size counter equals the number of nodes reachable from the root
\* through child links.
SizeIsReachableCount ==
    TreeLen(tree) = Cardinality(Reachable(tree))

\* a Delete has removed a node from a tree of at least four nodes
SizeWitness ==
    /\ op = "Delete" /\ ret = TRUE
    /\ Cardinality(Reachable(pre)) >= 4

\* a value comparing equal to v is stored in t
StoredEqual(t, v) ==
    \E n \in Reachable(t) : t.compare[<<v, t.nodes[n].value>>] = 0

\* C6: the tree refines a set: after every call Search(v) is true exactly
\* for the members of the reference set, and Len() is its cardinality.
RefinesReferenceSet ==
    /\ \A v \in Values : Search(tree, v) <=> v \in members
    /\ TreeLen(tree) = Cardinality(members)

\* a Delete has removed a member and left others, one of them greater and
\* one smaller
RefinesWitness ==
    /\ op = "Delete" /\ ret = TRUE
    /\ \E a, b \in members : a < arg /\ arg < b

\* C7: Delete(v) returns true exactly when a value comparing equal to v was
\* stored before the call; then Len() has decreased by one, Search(v) is
\* false and every other value stored before is still found.
DeleteReturnsStored ==
    op = "Delete" =>
        /\ ret = StoredEqual(pre, arg)
        /\ ret = TRUE =>
              /\ TreeLen(tree) = TreeLen(pre) - 1
              /\ ~Search(tree, arg)
              /\ \A w \in Stored(pre) \ {arg} : Search(tree, w)

\* a Delete has removed the value at the root of a tree of five nodes or more
DeleteReturnsWitness ==
    /\ op = "Delete" /\ ret = TRUE
    /\ TreeLen(pre) >= 5
    /\ pre.nodes[pre.root].value = arg

\* C8: Delete(v) of a value that is not stored, or on an empty tree, returns
\* false and leaves the root, every node and size as they were.
DeleteAbsentUnchanged ==
    (op = "Delete" /\ ~StoredEqual(pre, arg)) =>
        /\ ret = FALSE
        /\ post.root = pre.root
        /\ post.nodes = pre.nodes
        /\ post.size = pre.size
        /\ ~post.fault

\* a Delete of a value that is not stored has returned on a tree of three
\* nodes or more
DeleteAbsentWitness ==
    /\ op = "Delete" /\ ~StoredEqual(pre, arg)
    /\ TreeLen(pre) >= 3

\* C9: Insert(v) of a value that is already stored changes nothing: size,
\* the in-order sequence, the root, and every node's value, color and links
\* are as before, and no fault is raised.
InsertDuplicateNoOp ==
    (op = "Insert" /\ StoredEqual(pre, arg)) =>
        /\ post.size = pre.size
        /\ InOrderTraversal(post) = InOrderTraversal(pre)
        /\ post.root = pre.root
        /\ Reachable(post) = Reachable(pre)
        /\ \A n \in Reachable(pre) : post.nodes[n] = pre.nodes[n]
        /\ ~post.fault

\* an Insert of a stored value has returned on a tree of three nodes or more
InsertDuplicateWitness ==
    /\ op = "Insert" /\ StoredEqual(pre, arg)
    /\ TreeLen(pre) >= 3

\* C10: InOrderTraversal hands the visitor every stored value once, in
\* strictly ascending order under the comparator; the number of visits is
\* Len(), and on an empty tree there is none.
TraversalAscendingOnce ==
    op = "InOrderTraversal" =>
        /\ Len(ret) = TreeLen(tree)
        /\ \A i, j \in 1..Len(ret) :
              i < j => tree.compare[<<ret[i], ret[j]>>] < 0
        /\ {ret[i] : i \in 1..Len(ret)} = Stored(tree)
        /\ tree.root = Nil => ret = <<>>

\* a traversal of a tree of height two or more has returned
TraversalWitness ==
    /\ op = "InOrderTraversal"
    /\ Len(ret) >= 4
    /\ Height(tree) >= 2

\* C11: when distinct values have been inserted into an empty tree, in any
\* order, InOrderTraversal yields exactly the values inserted and not yet
\* deleted, in ascending order; when all of them have been deleted again, in
\* any order, the tree is empty: Len() is 0, IsEmpty() is true and Height()
\* is -1.
RoundTrip ==
    /\ InOrderTraversal(tree) = Sorted(members, tree.compare)
    /\ Cardinality(members) = Len(inserted) =>
          {inserted[i] : i \in 1..Len(inserted)} = Stored(tree)
    /\ members = {} =>
          /\ tree.root = Nil
          /\ TreeLen(tree) = 0 /\ IsEmpty(tree) /\ Height(tree) = -1

\* the last of MaxTrip inserted values has been deleted
RoundTripWitness ==
    /\ op = "Delete" /\ ret = TRUE
    /\ Len(inserted) = MaxTrip /\ members = {}

\* C12: Height() is at most 2*log2(n+1) for a tree of n values: for a tree
\* that is not empty 2^Height() is at most (n+1)^2, and for the empty tree
\* Height() is at most 0.
HeightLogBound ==
    /\ tree.root # Nil =>
          2 ^ Height(tree) <= (TreeLen(tree) + 1) * (TreeLen(tree) + 1)
    /\ tree.root = Nil => Height(tree) <= 0

\* a Delete has left a tree of eight values or more and of height three or
\* more
HeightLogBoundWitness ==
    /\ op = "Delete" /\ ret = TRUE
    /\ TreeLen(tree) >= 8 /\ Height(tree) >= 3

\* C13: Height() returns the number of edges on the longest path from the
\* root to a leaf: -1 for an empty tree, 0 for a tree of one node, and
\* otherwise one more than the larger of the heights of the subtrees of the
\* root.
HeightIsLongestPath ==
    op = "Height" =>
        /\ ret = PathEdges(tree, tree.root)
        /\ tree.root = Nil => ret = -1
        /\ TreeLen(tree) = 1 => ret = 0
        /\ tree.root # Nil =>
              LET l == PathEdges(tree, tree.nodes[tree.root].left)
                  r == PathEdges(tree, tree.nodes[tree.root].right)
              IN ret = 1 + (IF l > r THEN l ELSE r)

\* Height() has returned on a tree whose right subtree is the deeper one
HeightWitness ==
    /\ op = "Height" /\ tree.root # Nil
    /\ PathEdges(tree, tree.nodes[tree.root].right)
           > PathEdges(tree, tree.nodes[tree.root].left)
    /\ PathEdges(tree, tree.nodes[tree.root].left) >= 1

\* C14: a tree that New has just returned is empty, and every call on an
\* empty tree returns without a fault: Search and Delete return false, Height
\* returns -1, InOrderTraversal visits nothing, Len returns 0 and IsEmpty
\* returns true.
EmptyTreeWellDefined ==
    /\ op = "New" => IsEmpty(tree) /\ TreeLen(tree) = 0 /\ tree.root = Nil
    /\ pre.root = Nil =>
          /\ ~post.fault
          /\ op = "Search" => ret = FALSE
          /\ op = "Delete" => ret = FALSE /\ post = pre
          /\ op = "Height" => ret = -1
          /\ op = "InOrderTraversal" => ret = <<>>
          /\ op = "Len" => ret = 0
          /\ op = "IsEmpty" => ret = TRUE

\* Height() has returned on the tree that New returned
EmptyTreeWitness ==
    /\ op = "Height" /\ pre.root = Nil /\ pre.size = 0
    /\ pre.nodes = New(pre.compare).nodes

\* C15: whatever the tree held, Clear() leaves a tree without a root and of
\* size 0: IsEmpty() is true, Len() is 0, Height() is -1 and Search is false
\* for every value the tree stored before.
ClearEmpties ==
    op = "Clear" =>
        /\ post.root = Nil /\ post.size = 0
        /\ IsEmpty(tree) /\ TreeLen(tree) = 0 /\ Height(tree) = -1
        /\ \A v \in Stored(pre) : ~Search(tree, v)

\* Clear() has returned on a tree of four nodes or more
ClearWitness ==
    /\ op = "Clear" /\ TreeLen(pre) >= 4 /\ Height(pre) >= 2

\* C16: under a comparator that is a total order, no call of Insert, Delete,
\* Search, InOrderTraversal, Height, Len, IsEmpty or Clear reads a field of
\* an absent node.
NoFault == ~post.fault /\ ~tree.fault

\* a Delete has taken a Black node with no children out of a tree of six
\* nodes or more, so that the rebalancing ran on an absent node
NoFaultWitness ==
    /\ op = "Delete" /\ ret = TRUE /\ TreeLen(pre) >= 6
    /\ \E n \in Reachable(pre) :
          /\ pre.nodes[n].value = arg /\ pre.nodes[n].color = Black
          /\ pre.nodes[n].left = Nil /\ pre.nodes[n].right = Nil

RebalanceIterationsBounded ==
    op \in {"Insert", "Delete"} =>
        /\ Len(post.climb) <= Height(pre) + 1
        /\ \A i, j \in 1..Len(post.climb) :
              i < j => post.climb[i] > post.climb[j]

\* a Delete has returned whose rebalancing loop ran two iterations or more
RebalanceIterationsWitness ==
    /\ op = "Delete" /\ ret = TRUE /\ Len(post.climb) >= 2

\* C19: when 1, 2, 3, 4, 5 have been inserted into an empty tree in this
\* order, and likewise 5, 4, 3, 2, 1, Height() is at most 2.
SortedInsertsStayLow ==
    /\ Cardinality(members) = Len(inserted)
    /\ inserted \in {<<1, 2, 3, 4, 5>>, <<5, 4, 3, 2, 1>>}
    => Height(tree) <= 2

\* 5 has been inserted after 1, 2, 3 and 4
SortedInsertsWitness ==
    /\ op = "Insert" /\ arg = 5
    /\ inserted = <<1, 2, 3, 4, 5>> /\ TreeLen(tree) = 5

\* C20: under any deterministic comparator that returns a negative number,
\* zero or a positive number, a total order or not, no call of Insert,
\* Delete or Search reads a field of an absent node.
ComparatorNeverFaults ==
    op \in {"Insert", "Delete", "Search"} => ~post.fault /\ ~tree.fault

\* a Delete has returned true on a tree of four nodes or more whose values
\* were out of order under the comparator
ComparatorWitness ==
    /\ op = "Delete" /\ ret = TRUE /\ TreeLen(pre) >= 4
    /\ \E i, j \in 1..Len(InOrderTraversal(pre)) :
          /\ i < j
          /\ pre.compare[<<InOrderTraversal(pre)[i],
                           InOrderTraversal(pre)[j]>>] >= 0

\* C21: when a call has returned, the child links below the root form a
\* tree: every node but the root is the left or the right child of exactly
\* one node, no node is both children of a node or a child of two nodes, and
\* no chain of child links comes back to a node.
ExclusiveOwnership == OwnershipTree(post) /\ OwnershipTree(tree)

\* a Delete has unlinked the successor of a node with two children from a
\* tree of six nodes or more
ExclusiveOwnershipWitness ==
    /\ op = "Delete" /\ ret = TRUE /\ TreeLen(pre) >= 6
    /\ \E n \in Reachable(pre) :
          /\ pre.nodes[n].value = arg
          /\ pre.nodes[n].left # Nil /\ pre.nodes[n].right # Nil

\* C22: after every Insert and Delete the parent pointers mirror the child
\* links: the root has no parent, and the parent of every present child of a
\* reachable node is that node; when a Delete has spliced out a node y with a
\* child x, the parent of x is the node that was the parent of y.
ParentPointersConsistent ==
    /\ op \in {"Insert", "Delete"} =>
          ParentsConsistent(post) /\ ParentsConsistent(tree)
    /\ op = "Delete" /\ ret = TRUE /\ ChildOf(pre, UnlinkedBy(pre, arg)) # Nil =>
          LET y == UnlinkedBy(pre, arg)
              x == ChildOf(pre, y)
          IN /\ splice(pre, y).nodes[x].parent = pre.nodes[y].parent
             /\ pre.nodes[y].parent # Nil =>
                   x \in {splice(pre, y).nodes[pre.nodes[y].parent].left,
                          splice(pre, y).nodes[pre.nodes[y].parent].right}

\* a Delete has spliced out a node that had a child and was not the root
ParentPointersWitness ==
    /\ op = "Delete" /\ ret = TRUE
    /\ ChildOf(pre, UnlinkedBy(pre, arg)) # Nil
    /\ pre.nodes[UnlinkedBy(pre, arg)].parent # Nil
    /\ TreeLen(pre) >= 5

\* C23 as claimed: a Delete of the value of a node n with two children
\* unlinks the in-order successor s of n, the leftmost node of the right
\* subtree of n, which has no left child; n stays in the tree, holds the
\* value s held, and has the color it had; the in-order sequence is the one
\* before the call without the deleted value.
TwoChildDeleteKeepsColor ==
    TwoChildDelete =>
        LET n == findNode(pre, arg)
            s == UnlinkedBy(pre, arg)
        IN /\ s # n /\ s \in Subtree(pre, pre.nodes[n].right)
           /\ pre.nodes[s].left = Nil
           /\ \A m \in Subtree(pre, pre.nodes[n].right) \ {s} :
                 pre.compare[<<pre.nodes[s].value, pre.nodes[m].value>>] < 0
           /\ s \notin Reachable(post) /\ n \in Reachable(post)
           /\ post.nodes[n].value = pre.nodes[s].value
           /\ post.nodes[n].color = pre.nodes[n].color
           /\ InOrderTraversal(post) = Without(InOrderTraversal(pre), arg)

\* C23 as amended: the same, but n has the color it had when s was Red;
\* when s was Black the rebalancing that follows may recolor n.
TwoChildDeleteUnlinksSuccessor ==
    TwoChildDelete =>
        LET n == findNode(pre, arg)
            s == UnlinkedBy(pre, arg)
        IN /\ s # n /\ s \in Subtree(pre, pre.nodes[n].right)
           /\ pre.nodes[s].left = Nil
           /\ \A m \in Subtree(pre, pre.nodes[n].right) \ {s} :
                 pre.compare[<<pre.nodes[s].value, pre.nodes[m].value>>] < 0
           /\ s \notin Reachable(post) /\ n \in Reachable(post)
           /\ post.nodes[n].value = pre.nodes[s].value
           /\ pre.nodes[s].color = Red =>
                 post.nodes[n].color = pre.nodes[n].color
           /\ InOrderTraversal(post) = Without(InOrderTraversal(pre), arg)

\* the second of seven values has been deleted from the tree that inserting
\* the fourth, second, sixth, first, third, fifth and seventh of them builds
TwoChildDeleteWitness ==
    /\ TwoChildDelete /\ arg = 2
    /\ InOrderTraversal(pre) = <<1, 2, 3, 4, 5, 6, 7>>
    /\ pre.nodes[pre.root].value = 4
    /\ \A m \in Reachable(pre) :
          (pre.nodes[m].color = Red) = (pre.nodes[m].value \in {1, 3, 5, 7})
    /\ InOrderTraversal(post) = <<1, 3, 4, 5, 6, 7>>

\* what verifyRedBlackProperties tests on t: the root is Black, no Red
\* node has a Red child, and all paths below a node hold as many Black nodes
RedBlackHolds(t) ==
    /\ t.root # Nil => t.nodes[t.root].color = Black
    /\ \A n \in Reachable(t) :
          t.nodes[n].color = Red =>
              isBlack(t, t.nodes[n].left) /\ isBlack(t, t.nodes[n].right)
    /\ Cardinality(BlackHeights(t, t.root)) = 1
    /\ \A n \in Reachable(t) :
          BlackHeights(t, t.nodes[n].left) = BlackHeights(t, t.nodes[n].right)

\* the links of node m are in t2 what they were in t1
SameLinks(t1, t2, m) ==
    /\ t2.nodes[m].left = t1.nodes[m].left
    /\ t2.nodes[m].right = t1.nodes[m].right
    /\ t2.nodes[m].parent = t1.nodes[m].parent

\* the last call was a Delete that unlinked a Red node
RedUnlinked ==
    /\ op = "Delete" /\ findNode(pre, arg) # Nil
    /\ pre.nodes[UnlinkedBy(pre, arg)].color = Red

\* C24: a Delete that unlinks a Red node y returns true, rotates nothing and
\* recolors nothing: every node has the color it had, the only links that differ are
\* the link of y's parent to y, which now leads to the child of y, and that
\* child's parent link; and the root is Black, no Red node has a Red child
\* and the black-heights are equal when the call has returned.
RedUnlinkNeedsNoRebalance ==
    RedUnlinked =>
        LET y == UnlinkedBy(pre, arg)
            yp == pre.nodes[y].parent
            x == ChildOf(pre, y)
        IN /\ ret = TRUE /\ ~post.fault
           /\ \A m \in Reachable(pre) :
                 post.nodes[m].color = pre.nodes[m].color
           /\ \A m \in Reachable(pre) \ {yp, x} : SameLinks(pre, post, m)
           /\ post.root = pre.root /\ yp # Nil
           /\ post.nodes[yp].parent = pre.nodes[yp].parent
           /\ IF pre.nodes[yp].left = y
              THEN /\ post.nodes[yp].left = x
                   /\ post.nodes[yp].right = pre.nodes[yp].right
              ELSE /\ post.nodes[yp].right = x
                   /\ post.nodes[yp].left = pre.nodes[yp].left
           /\ x # Nil =>
                 /\ post.nodes[x].parent = yp
                 /\ post.nodes[x].left = pre.nodes[x].left
                 /\ post.nodes[x].right = pre.nodes[x].right
           /\ RedBlackHolds(post) /\ RedBlackHolds(tree)

\* a Red node whose sibling is Red has been unlinked: a rebalancing from
\* the place of that node would have rotated its parent
RedUnlinkWitness ==
    /\ RedUnlinked
    /\ LET y == UnlinkedBy(pre, arg)
           yp == pre.nodes[y].parent
           w == sibling(pre, yp, pre.nodes[yp].left = y)
       IN w # Nil /\ pre.nodes[w].color = Red
    /\ TreeLen(tree) >= 4

\* the links of t2 are those of t1 but for the splice of lines 250-266: the
\* parent of y, or the root, leads to the child x of y where it led to y,
\* and the parent link of x leads where that of y led; nothing is rotated
SplicedOnly(t1, t2, y) ==
    LET yp == t1.nodes[y].parent
        x == ChildOf(t1, y)
    IN /\ \A m \in Reachable(t1) \ {y, yp, x} : SameLinks(t1, t2, m)
       /\ t2.root = IF yp = Nil THEN x ELSE t1.root
       /\ yp # Nil =>
             /\ t2.nodes[yp].parent = t1.nodes[yp].parent
             /\ IF t1.nodes[yp].left = y
                THEN /\ t2.nodes[yp].left = x
                     /\ t2.nodes[yp].right = t1.nodes[yp].right
                ELSE /\ t2.nodes[yp].right = x
                     /\ t2.nodes[yp].left = t1.nodes[yp].left
       /\ x # Nil =>
             /\ t2.nodes[x].parent = yp
             /\ t2.nodes[x].left = t1.nodes[x].left
             /\ t2.nodes[x].right = t1.nodes[x].right

\* the last call was a Delete that unlinked a Black node with a Red child
BlackUnlinkedAboveRed ==
    /\ op = "Delete" /\ findNode(pre, arg) # Nil
    /\ pre.nodes[UnlinkedBy(pre, arg)].color = Black
    /\ ChildOf(pre, UnlinkedBy(pre, arg)) # Nil
    /\ pre.nodes[ChildOf(pre, UnlinkedBy(pre, arg))].color = Red

\* C25: a Delete that unlinks a Black node y whose only child x is Red puts
\* x where y was and colors x Black; no other node changes color, nothing is
\* rotated, and the root is Black, no Red node has a Red child and the
\* black-heights are equal when the call has returned.
RedChildReplacesBlack ==
    BlackUnlinkedAboveRed =>
        LET y == UnlinkedBy(pre, arg)
            x == ChildOf(pre, y)
        IN /\ ret = TRUE /\ ~post.fault
           /\ x \in Reachable(post) /\ y \notin Reachable(post)
           /\ post.nodes[x].color = Black
           /\ \A m \in Reachable(pre) \ {x} :
                 post.nodes[m].color = pre.nodes[m].color
           /\ SplicedOnly(pre, post, y)
           /\ InOrderTraversal(post) = Without(InOrderTraversal(pre), arg)
           /\ RedBlackHolds(post) /\ RedBlackHolds(tree)

\* the third of four values has been deleted from the tree that inserting
\* the second, first, third and fourth of them builds
RedChildReplacesBlackWitness ==
    /\ BlackUnlinkedAboveRed /\ arg = 3 /\ pre.compare = Ascending
    /\ InOrderTraversal(pre) = <<1, 2, 3, 4>>
    /\ pre.nodes[pre.root].value = 2
    /\ UnlinkedBy(pre, arg) = findNode(pre, arg)
    /\ InOrderTraversal(tree) = <<1, 2, 4>>

\* the last call was an Insert whose rebalancing entered the body of its
\* loop: the node it linked, or a grandparent the loop moved to, had a Red
\* parent
InsertLoopRan == op = "Insert" /\ post.climb # <<>>

\* C26: whenever the body of the loop of insertFixup runs, the Red parent
\* of the current node has a parent: the node an Insert links below a Red
\* node has a grandparent, every later iteration starts two links or more
\* below the root, and no read of n.parent.parent meets an absent node.
GrandparentExists ==
    /\ InsertLoopRan =>
          /\ ~post.fault
          /\ \A i \in 1..Len(post.climb) : post.climb[i] >= 2
    /\ op = "Insert" /\ ~StoredEqual(pre, arg) =>
          LET p == insertDescend(pre, arg, pre.root, Nil).parent
          IN p # Nil /\ pre.nodes[p].color = Red => pre.nodes[p].parent # Nil

\* an Insert has linked a node below a Red child of the root whose sibling
\* is Red too: the loop has colored the root Red and stopped there
GrandparentWitness ==
    /\ InsertLoopRan /\ post.climb = <<2>>
    /\ LET p == insertDescend(pre, arg, pre.root, Nil).parent
           w == sibling(pre, pre.root, pre.nodes[pre.root].left = p)
       IN /\ pre.nodes[p].parent = pre.root /\ pre.nodes[p].color = Red
          /\ w # Nil /\ pre.nodes[w].color = Red
    /\ tree.nodes[tree.root].color = Black

\* the last call was a Delete whose rebalancing entered the body of its
\* loop: the child x of the Black node it unlinked was absent or Black, and
\* was not the root
DeleteLoopRan ==
    /\ op = "Delete" /\ findNode(pre, arg) # Nil
    /\ pre.nodes[UnlinkedBy(pre, arg)].color = Black
    /\ isBlack(pre, ChildOf(pre, UnlinkedBy(pre, arg)))
    /\ splice(pre, UnlinkedBy(pre, arg)).root # ChildOf(pre, UnlinkedBy(pre, arg))

\* the child of w on the side of the node the loop is at, and the other one
NearChild(t, w, leftSide) == IF leftSide THEN t.nodes[w].left ELSE t.nodes[w].right
FarChild(t, w, leftSide) == IF leftSide THEN t.nodes[w].right ELSE t.nodes[w].left

\* C27: whenever the body of the loop of deleteFixup runs, parent is
\* present and so is the sibling w of x: when it is first read, when it is
\* read again after the rotation of Case 1, where it is the child a Red w had
\* on the side of x, and after the rotation of Case 3, where it is the Red
\* child a Black w had on the side of x; every later iteration starts below
\* a present parent, and no read of w meets an absent node.
SiblingExists ==
    DeleteLoopRan =>
        LET y == UnlinkedBy(pre, arg)
            parent == pre.nodes[y].parent
            leftSide == (pre.nodes[parent].left = y)
            t0 == splice(pre, y)
            w == sibling(t0, parent, leftSide)
            t1 == IF pre.nodes[w].color = Red
                  THEN deleteCase1(t0, parent, w, leftSide) ELSE t0
            w1 == sibling(t1, parent, leftSide)
            w2 == sibling(deleteCase3(t1, w1, leftSide), parent, leftSide)
        IN /\ parent # Nil /\ w # Nil
           /\ w1 # Nil /\ ~t1.fault
           /\ pre.nodes[w].color = Red => w1 = NearChild(pre, w, leftSide)
           /\ (/\ isBlack(t1, FarChild(t1, w1, leftSide))
               /\ ~isBlack(t1, NearChild(t1, w1, leftSide))) =>
                 w2 # Nil /\ w2 = NearChild(t1, w1, leftSide)
           /\ post.climb # <<>>
           /\ \A i \in 1..Len(post.climb) : post.climb[i] >= 1
           /\ ret = TRUE /\ ~post.fault

\* a Black node without children has been unlinked beside a Red sibling
\* whose child on that side has a Red child on that side and none on the
\* other: Case 1 and then Case 3 have rotated, and w was read three times
SiblingWitness ==
    /\ DeleteLoopRan
    /\ LET y == UnlinkedBy(pre, arg)
           parent == pre.nodes[y].parent
           leftSide == (pre.nodes[parent].left = y)
           w == sibling(pre, parent, leftSide)
           w1 == NearChild(pre, w, leftSide)
       IN /\ pre.nodes[w].color = Red
          /\ FarChild(pre, w1, leftSide) = Nil
          /\ NearChild(pre, w1, leftSide) # Nil
    /\ ~post.fault

\* the last call was a rotation; Lifted is the child it lifted above the
\* node arg it was called at, and Inner the child of Lifted that changed
\* sides
Rotated == op \in {"rotateLeft", "rotateRight"}
Lifted ==
    IF op = "rotateLeft" THEN pre.nodes[arg].right ELSE pre.nodes[arg].left
Inner ==
    IF op = "rotateLeft" THEN pre.nodes[Lifted].left ELSE pre.nodes[Lifted].right

\* C28: a rotateLeft or rotateRight leaves the in-order sequence of values
\* as it was, changes no color and no value, and keeps the set of nodes
\* reachable from the root; the only links that change are those of the
\* node it was called at, of the child it lifts, of the parent of the one
\* and of the inner child of the other.
RotationKeepsOrder ==
    Rotated =>
        /\ ~post.fault
        /\ InOrderTraversal(post) = InOrderTraversal(pre)
        /\ \A m \in Reachable(pre) :
              /\ post.nodes[m].color = pre.nodes[m].color
              /\ post.nodes[m].value = pre.nodes[m].value
        /\ Reachable(post) = Reachable(pre)
        /\ post.size = pre.size
        /\ \A m \in Reachable(pre) \ {arg, Lifted, Inner, pre.nodes[arg].parent} :
              SameLinks(pre, post, m)
        /\ post.nodes[Lifted].parent = pre.nodes[arg].parent
        /\ post.nodes[arg].parent = Lifted
        /\ ParentsConsistent(post) /\ OwnershipTree(post)

\* a rotateLeft has been called at a node below the root whose right child
\* had a left child, in a tree of five nodes: every link the rotation can
\* write was written
RotationWitness ==
    /\ op = "rotateLeft" /\ Inner # Nil /\ pre.nodes[arg].parent # Nil
    /\ TreeLen(pre) >= 5
    /\ post.nodes[arg].right = Inner /\ post.nodes[Inner].parent = arg

\* the tree a caller holds after New(compare) and an Insert of each entry
\* of seq in turn
RECURSIVE Build(_, _)
Build(compare, seq) ==
    IF seq = <<>> THEN New(compare)
    ELSE collect(Insert(Build(compare, SubSeq(seq, 1, Len(seq) - 1)),
                        seq[Len(seq)]))

\* the last call was the first Delete, and it was given the value of the
\* last Insert, which no earlier Insert had stored
InsertThenDelete ==
    /\ op = "Delete" /\ inserted # <<>>
    /\ Cardinality(members) = Len(inserted) - 1
    /\ arg = inserted[Len(inserted)]

\* C29: an Insert of a value that was not stored followed by a Delete of
\* that value gives back the values stored before the Insert: Delete
\* returns true, Len() and the in-order sequence are those before the
\* Insert, the root is Black, no Red node has a Red child and the
\* black-heights are equal; when the tree was empty before, it is empty
\* again.
InsertDeleteRestores ==
    InsertThenDelete =>
        LET before == Build(tree.compare, SubSeq(inserted, 1, Len(inserted) - 1))
        IN /\ ~StoredEqual(before, arg)
           /\ pre = collect(Insert(before, arg))
           /\ ret = TRUE
           /\ TreeLen(tree) = TreeLen(before)
           /\ InOrderTraversal(tree) = InOrderTraversal(before)
           /\ RedBlackHolds(tree)
           /\ IsEmpty(before) => IsEmpty(tree) /\ tree.root = Nil

\* the value inserted last, into a tree of MaxTrip - 1 nodes, has been deleted again
\* and has left another tree than the one before the Insert, with the same
\* values
InsertDeleteWitness ==
    /\ InsertThenDelete /\ ret = TRUE /\ Len(inserted) = MaxTrip
    /\ tree # Build(tree.compare, SubSeq(inserted, 1, Len(inserted) - 1))
    /\ Stored(tree) = Stored(Build(tree.compare, SubSeq(inserted, 1, Len(inserted) - 1)))

\* the comparator that compares b with a where compare compares a with b
Reversed(compare) == [p \in DOMAIN compare |-> compare[<<p[2], p[1]>>]]

\* the mirror image of t: the left and right children of every node are
\* swapped, values and colors stay, and the comparator is reversed
Mirror(t) ==
    [t EXCEPT !.compare = Reversed(@),
              !.nodes = [m \in DOMAIN @ |->
                            [@[m] EXCEPT !.left = t.nodes[m].right,
                                         !.right = t.nodes[m].left]]]

\* the calls so far were Inserts of distinct values
OnlyInserted == Cardinality(members) = Len(inserted)

\* C30: the tree a sequence of Insert calls builds under the reversed
\* comparator is the mirror image of the tree it builds under the
\* comparator: the same values and colors, with left and right swapped; and
\* an Insert into the mirror image of a tree gives the mirror image of what
\* the Insert gives in the tree.
InsertMirrorSymmetric ==
    OnlyInserted =>
        /\ tree = Build(tree.compare, inserted)
        /\ Build(Reversed(tree.compare), inserted) = collect(Mirror(tree))
        /\ op = "Insert" =>
              collect(Insert(collect(Mirror(pre)), arg)) = collect(Mirror(post))

\* MaxTrip values have been inserted, the parent of one was a right child
\* when the loop of insertFixup ran, that of another a left child, and the
\* tree is not its own mirror image
InsertMirrorWitness ==
    /\ OnlyInserted /\ op = "Insert" /\ Len(inserted) = MaxTrip
    /\ post.climb # <<>>
    /\ LET p == insertDescend(pre, arg, pre.root, Nil).parent
       IN pre.nodes[pre.nodes[p].parent].right = p
    /\ \E k \in 1..(MaxTrip - 1) :
          LET t == Build(tree.compare, SubSeq(inserted, 1, k - 1))
              p == insertDescend(t, inserted[k], t.root, Nil).parent
          IN /\ p # Nil /\ t.nodes[p].color = Red
             /\ t.nodes[t.nodes[p].parent].left = p
    /\ [collect(Mirror(tree)) EXCEPT !.compare = tree.compare] # tree

\* ------------------------------------------- two writers without a lock
\* Two goroutines share the tree and each calls Insert once, after a single
\* caller has built the tree.  The steps of a call are its reads and writes
\* of the shared tree in program order: the Search of line 54, the descent
\* of lines 63-83, the write of the link (line 64, or lines 85-90), the read
\* and the write of t.size++ (line 65 or 92) and insertFixup (line 66 or
\* 93).  A step is atomic; between two steps of one goroutine the other may
\* take any number of its own.
Writers == {1, 2}

\* the locals of a goroutine: where it stands, the value it inserts, its
\* newNode, the parent the descent ended at, the size it read, whether the
\* value was stored when it called, and whether its call overlapped the
\* call of the other goroutine
Idle ==
    [pc |-> "idle", value |-> 0, node |-> Nil, parent |-> Nil, size |-> 0,
     stored |-> FALSE, raced |-> FALSE]

InFlight(th) == th.pc \notin {"idle", "done"}

InitRace ==
    /\ tree \in {New(AscendingOn(RaceValues)), New(DescendingOn(RaceValues))}
    /\ op = "New"
    /\ arg = None
    /\ ret = None
    /\ pre = tree
    /\ post = tree
    /\ members = {}
    /\ inserted = <<>>
    /\ threads = [i \in Writers |-> Idle]

\* the single caller inserts before the goroutines start
RaceBuild(v) ==
    /\ \A i \in Writers : threads[i].pc = "idle"
    /\ v \notin members /\ Cardinality(members) < MaxRace - 2
    /\ DoInsert(v)
    /\ UNCHANGED <<inserted, threads>>

\* a step of goroutine i leaves what the last whole call was
RaceStep(i) ==
    /\ ~tree.fault
    /\ op' = "Insert" /\ arg' = threads[i].value /\ ret' = None
    /\ post' = tree'
    /\ UNCHANGED <<pre, members, inserted>>

\* lines 54-61: Insert(v) is called by goroutine i; Search, and if the value
\* is not found, newNode
InsertSearch(i, v) ==
    /\ threads[i].pc = "idle" /\ ~tree.fault
    /\ LET racing == \E j \in Writers \ {i} : InFlight(threads[j])
           mine == [Idle EXCEPT !.value = v, !.stored = Search(tree, v),
                                !.raced = racing]
           others == [j \in Writers |->
                         IF InFlight(threads[j])
                         THEN [threads[j] EXCEPT !.raced = TRUE]
                         ELSE threads[j]]
       IN IF Search(tree, v)
          THEN /\ threads' = [others EXCEPT ![i] = [mine EXCEPT !.pc = "done"]]
               /\ tree' = tree
          ELSE /\ threads' = [others EXCEPT ![i] =
                                 [mine EXCEPT !.pc = "descent", !.node = alloc(tree)]]
               /\ tree' = [tree EXCEPT !.nodes =
                              (alloc(tree) :> newNode(v)) @@ tree.nodes]
    /\ op' = "Insert" /\ arg' = v /\ ret' = None /\ post' = tree'
    /\ members' = members \cup {v}
    /\ UNCHANGED <<pre, inserted>>

\* lines 63 and 67-83: t.root is read; if it is present, the descent
InsertDescent(i) ==
    /\ threads[i].pc = "descent"
    /\ LET d == insertDescend(tree, threads[i].value, tree.root, Nil)
       IN threads' = [threads EXCEPT ![i].pc =
                          IF tree.root = Nil THEN "root"
                          ELSE IF d.dup THEN "done" ELSE "link",
                                     ![i].parent = d.parent]
    /\ tree' = tree
    /\ RaceStep(i)

\* line 64: t.root = newNode
InsertRoot(i) ==
    /\ threads[i].pc = "root"
    /\ tree' = [tree EXCEPT !.root = threads[i].node]
    /\ threads' = [threads EXCEPT ![i].pc = "read"]
    /\ RaceStep(i)

\* lines 85-90: newNode.parent = parent, and the link of parent
InsertLink(i) ==
    /\ threads[i].pc = "link"
    /\ LET n == threads[i].node
           parent == threads[i].parent
           t1 == [tree EXCEPT !.nodes[n].parent = parent]
       IN tree' = IF t1.compare[<<threads[i].value, t1.nodes[parent].value>>] < 0
                  THEN [t1 EXCEPT !.nodes[parent].left = n]
                  ELSE [t1 EXCEPT !.nodes[parent].right = n]
    /\ threads' = [threads EXCEPT ![i].pc = "read"]
    /\ RaceStep(i)

\* lines 65 and 92, t.size++: the load
InsertReadSize(i) ==
    /\ threads[i].pc = "read"
    /\ tree' = tree
    /\ threads' = [threads EXCEPT ![i].pc = "write", ![i].size = tree.size]
    /\ RaceStep(i)

\* mutant of InsertWriteSize: the size that was read is stored back
InsertWriteSizeSame(i) ==
    /\ threads[i].pc = "write"
    /\ tree' = [tree EXCEPT !.size = threads[i].size]
    /\ threads' = [threads EXCEPT ![i].pc = "fixup"]
    /\ RaceStep(i)

\* lines 65 and 92, t.size++: the store
InsertWriteSize(i) ==
    /\ threads[i].pc = "write"
    /\ tree' = [tree EXCEPT !.size = threads[i].size + 1]
    /\ threads' = [threads EXCEPT ![i].pc = "fixup"]
    /\ RaceStep(i)

\* lines 66 and 93: insertFixup(newNode); the call returns
InsertRebalance(i) ==
    /\ threads[i].pc = "fixup"
    /\ tree' = insertFixup(tree, threads[i].node)
    /\ threads' = [threads EXCEPT ![i].pc = "done"]
    /\ RaceStep(i)

NextRace ==
    \/ \E v \in RaceValues : RaceBuild(v)
    \/ \E i \in Writers, v \in RaceValues : InsertSearch(i, v)
    \/ \E i \in Writers : InsertDescent(i)
    \/ \E i \in Writers : InsertRoot(i)
    \/ \E i \in Writers : InsertLink(i)
    \/ \E i \in Writers : InsertReadSize(i)
    \/ \E i \in Writers : InsertWriteSize(i)
    \/ \E i \in Writers : InsertRebalance(i)

SpecRace == InitRace /\ [][NextRace]_vars

\* what a tree that one caller at a time has used satisfies: the
\* properties verifyRedBlackProperties tests, the parent links, the order,
\* the size
Consistent(t) ==
    /\ ~t.fault
    /\ RedBlackHolds(t) /\ ParentsConsistent(t) /\ OwnershipTree(t)
    /\ InOrderTraversal(t) = Sorted(Stored(t), t.compare)
    /\ t.size = Cardinality(Reachable(t))

\* both goroutines have called Insert and both calls have returned
BothReturned == \A i \in DOMAIN threads : threads[i].pc = "done"

\* C31: two Inserts that run one after the other leave a consistent tree
\* that holds both values, so that a tree that does not hold an inserted
\* value, or whose size is not the number of its nodes, after both calls
\* have returned, comes from calls whose steps interleaved; such a tree is
\* reachable (the witness).
RaceNeedsOverlap ==
    (threads # <<>> /\ BothReturned) =>
        \/ \E i \in Writers : threads[i].raced
        \/ /\ Consistent(tree)
           /\ \A i \in Writers : threads[i].value \in Stored(tree)
           /\ Stored(tree) = members

\* two Inserts of different values that were not stored have overlapped
\* and returned: one of the values cannot be reached from the root, and the
\* size counts it
RaceLosesInsert ==
    /\ threads # <<>> /\ BothReturned
    /\ \A i \in Writers : threads[i].raced /\ ~threads[i].stored
    /\ threads[1].value # threads[2].value
    /\ \E i \in Writers : threads[i].value \notin Stored(tree)
    /\ tree.size = Cardinality(members)
    /\ tree.size # Cardinality(Reachable(tree))

\* ------------------------------------- a reader beside a writer, no lock
\* One goroutine calls Insert and Delete, another calls Search.  The steps
\* of Search are its reads of the shared tree in program order: t.root
\* (line 184), then at each node the value and one child link (lines
\* 185-193).  The calls of the writer are taken whole between two steps of
\* the reader.

\* the locals of the reader: where it stands, the value it looks for, its
\* current, whether the value has been stored since the call was made, and
\* how many calls of the writer its call has overlapped
Reader ==
    [pc |-> "idle", value |-> 0, current |-> Nil, stored |-> FALSE,
     writes |-> 0]

InitRead ==
    /\ tree \in {New(AscendingOn(ReadValues)), New(DescendingOn(ReadValues))}
    /\ op = "New"
    /\ arg = None
    /\ ret = None
    /\ pre = tree
    /\ post = tree
    /\ members = {}
    /\ inserted = <<>>
    /\ threads = [reader |-> Reader]

\* the reader after a call of the writer that left the tree t
Overlapped(t) ==
    IF threads.reader.pc = "at"
    THEN [threads EXCEPT !.reader.writes = @ + 1,
                         !.reader.stored = @ /\ Search(t, threads.reader.value)]
    ELSE threads

\* the writer calls another value than the one a Search in progress looks
\* for; the collector runs when no Search is in progress
WriterMay(v) ==
    /\ ~tree.fault
    /\ threads.reader.pc = "at" =>
          v # threads.reader.value /\ threads.reader.writes < MaxOverlap

Collected(t) == IF threads.reader.pc = "at" THEN t ELSE collect(t)

\* the writer calls Insert(v)
WriterInsert(v) ==
    /\ WriterMay(v)
    /\ post' = Insert(tree, v)
    /\ tree' = Collected(post')
    /\ threads' = Overlapped(post')
    /\ op' = "Insert" /\ arg' = v /\ ret' = None /\ pre' = tree
    /\ members' = members \cup {v}
    /\ UNCHANGED inserted

\* the writer calls Delete(v)
WriterDelete(v) ==
    /\ WriterMay(v)
    /\ \E r \in {Delete(tree, v)} :
          /\ post' = r.t /\ tree' = Collected(r.t) /\ ret' = r.found
          /\ threads' = Overlapped(r.t)
    /\ op' = "Delete" /\ arg' = v /\ pre' = tree
    /\ members' = members \ {v}
    /\ UNCHANGED inserted

\* line 184: Search(v) is called by the reader; current := t.root
SearchRoot(v) ==
    /\ threads.reader.pc \in {"idle", "done"} /\ ~tree.fault
    /\ threads' = [threads EXCEPT !.reader =
                      [pc |-> "at", value |-> v, current |-> tree.root,
                       stored |-> Search(tree, v), writes |-> 0]]
    /\ UNCHANGED <<tree, op, arg, ret, pre, post, members, inserted>>

\* the reader returns found from Search
SearchReturns(found) ==
    /\ threads' = [threads EXCEPT !.reader.pc = "done", !.reader.current = Nil]
    /\ tree' = collect(tree) /\ post' = tree /\ pre' = tree
    /\ op' = "Search" /\ arg' = threads.reader.value /\ ret' = found
    /\ UNCHANGED <<members, inserted>>

\* mutant of SearchStep: the reader goes right where the value compares
\* less, and left where it compares greater
SearchStepWrongSide ==
    /\ threads.reader.pc = "at" /\ ~tree.fault
    /\ LET current == threads.reader.current
           value == threads.reader.value
       IN IF current = Nil THEN SearchReturns(FALSE)
          ELSE IF tree.compare[<<value, tree.nodes[current].value>>] = 0
          THEN SearchReturns(TRUE)
          ELSE /\ threads' = [threads EXCEPT !.reader.current =
                                 IF tree.compare[<<value, tree.nodes[current].value>>] > 0
                                 THEN tree.nodes[current].left
                                 ELSE tree.nodes[current].right]
               /\ UNCHANGED <<tree, op, arg, ret, pre, post, members, inserted>>

\* lines 185-193: one turn of the loop of Search, or line 195
SearchStep ==
    /\ threads.reader.pc = "at" /\ ~tree.fault
    /\ LET current == threads.reader.current
           value == threads.reader.value
       IN IF current = Nil THEN SearchReturns(FALSE)
          ELSE IF tree.compare[<<value, tree.nodes[current].value>>] = 0
          THEN SearchReturns(TRUE)
          ELSE /\ threads' = [threads EXCEPT !.reader.current =
                                 IF tree.compare[<<value, tree.nodes[current].value>>] < 0
                                 THEN tree.nodes[current].left
                                 ELSE tree.nodes[current].right]
               /\ UNCHANGED <<tree, op, arg, ret, pre, post, members, inserted>>

NextRead ==
    \/ \E v \in ReadValues : WriterInsert(v)
    \/ \E v \in ReadValues : WriterDelete(v)
    \/ \E v \in ReadValues : SearchRoot(v)
    \/ SearchStep

SpecRead == InitRead /\ [][NextRead]_vars

\* the reader has returned from a Search
SearchReturned ==
    /\ "reader" \in DOMAIN threads
    /\ threads.reader.pc = "done" /\ op = "Search"

\* C32: a Search that no call of the writer overlapped returns whether the
\* value is stored, so that a Search that returns false for a value that
\* was stored when it was called and after every call of the writer since
\* has overlapped an Insert or a Delete of another value; such a Search is
\* reachable (the witness).
SearchMissNeedsOverlap ==
    SearchReturned =>
        /\ threads.reader.writes = 0 =>
              /\ ret = threads.reader.stored
              /\ ret = (arg \in members)
        /\ (threads.reader.stored /\ ret = FALSE) => threads.reader.writes >= 1

\* a Search has returned false for a value that was stored when it was
\* called, is stored now, and was stored after the one call of the writer
\* that it overlapped
SearchMissesStored ==
    /\ SearchReturned /\ ret = FALSE
    /\ threads.reader.stored /\ threads.reader.writes = 1
    /\ Search(tree, arg) /\ arg \in members

\* the iterations the rebalancing loop of the last call began, and the
\* rotations the call made
Iterations == Len(post.climb)
Rotations == Len(post.turns)

DeleteRotatesAtMostThrice ==
    op = "Delete" =>
        /\ Rotations <= 3
        /\ \A k \in 1..Rotations : post.turns[k].at = Iterations
        /\ Rotations >= 1 => Iterations >= 1
        /\ Rotations = 3 =>
              /\ post.turns[1].node = post.turns[3].node
              /\ post.turns[1].left = post.turns[3].left
              /\ post.turns[2].left # post.turns[1].left
              /\ pre.nodes[post.turns[1].pivot].color = Red

\* a Delete has rotated three times
DeleteRotatesWitness ==
    /\ op = "Delete" /\ ret = TRUE /\ Rotations = 3
    /\ post.turns[3].at = Iterations
    /\ ~post.fault

\* the tree the k-th entry of heads holds, and the current node it holds
HeadTree(k) ==
    [post EXCEPT !.root = post.heads[k].root, !.nodes = post.heads[k].nodes]
HeadNode(k) == post.heads[k].n

\* the edges of t from a Red node to a Red child
RedRedEdges(t) ==
    {e \in Reachable(t) \X Reachable(t) :
        /\ e[2] \in {t.nodes[e[1]].left, t.nodes[e[1]].right}
        /\ t.nodes[e[1]].color = Red /\ t.nodes[e[2]].color = Red}

\* C35: each time the loop of insertFixup comes to its head or leaves by
\* its break, the values are in order, all paths from a node down hold as
\* many Black nodes, the current node n is Red, the only Red node with a
\* Red child, if any, is the parent of n, with n that child, and the root is
\* Black unless n is the root.
InsertLoopInvariant ==
    op = "Insert" =>
        \A k \in 1..Len(post.heads) :
            LET t == HeadTree(k)
                n == HeadNode(k)
            IN /\ InOrderTraversal(t) = Sorted(Stored(t), t.compare)
               /\ Cardinality(BlackHeights(t, t.root)) = 1
               /\ \A m \in Reachable(t) :
                     BlackHeights(t, t.nodes[m].left)
                         = BlackHeights(t, t.nodes[m].right)
               /\ n \in Reachable(t) /\ t.nodes[n].color = Red
               /\ RedRedEdges(t) \subseteq {<<t.nodes[n].parent, n>>}
               /\ t.nodes[t.root].color = Red => n = t.root
               /\ ParentsConsistent(t)

\* an Insert has come to the head of the loop three times: below a Red
\* parent, two links higher below a Red parent again, and after a rotation
InsertLoopWitness ==
    /\ op = "Insert" /\ Len(post.heads) >= 3 /\ Iterations = 2
    /\ RedRedEdges(HeadTree(1)) # {} /\ RedRedEdges(HeadTree(2)) # {}
    /\ HeadNode(2) # HeadNode(1)
    /\ Rotations >= 1

\* C36: under any deterministic comparator, a total order or not, after
\* every Insert and every Delete the root is Black, no Red node has a Red
\* child, all paths from a node down hold as many Black nodes, the parent
\* links mirror the child links, the links form a tree and size is the
\* number of nodes reachable from the root.
StructureNeedsNoOrder ==
    op \in {"Insert", "Delete"} =>
        /\ ~post.fault
        /\ RedBlackHolds(post) /\ RedBlackHolds(tree)
        /\ ParentsConsistent(post) /\ ParentsConsistent(tree)
        /\ OwnershipTree(tree)
        /\ post.size = Cardinality(Reachable(post))
        /\ tree.size = Cardinality(Reachable(tree))

\* a Delete has rebalanced a tree of four nodes or more and left a tree
\* whose values are not in ascending order, the order its comparator
\* departs from, with a stored value that Search does not find
StructureWitness ==
    /\ op = "Delete" /\ ret = TRUE /\ TreeLen(pre) >= 4 /\ Iterations >= 1
    /\ InOrderTraversal(tree) # Sorted(Stored(tree), Ascending)
    /\ \E v \in Stored(tree) : ~Search(tree, v)

\* C37: every rotation an Insert or a Delete makes is called at a node
\* that is present and has the child the rotation lifts: rotateLeft(x) with
\* x.right present, rotateRight(y) with y.left present.
RotationPivotPresent ==
    op \in {"Insert", "Delete"} =>
        \A k \in 1..Rotations :
            /\ post.turns[k].node # Nil
            /\ post.turns[k].pivot # Nil
            /\ post.turns[k].pivot # post.turns[k].node

\* a Delete has called rotateLeft and rotateRight, and the node one of the
\* calls lifted had no child on the side that changes hands
RotationPivotWitness ==
    /\ op = "Delete" /\ ret = TRUE
    /\ \E j, k \in 1..Rotations : post.turns[j].left /\ ~post.turns[k].left
    /\ \E k \in 1..Rotations :
          LET y == post.turns[k].pivot
          IN /\ y \in DOMAIN pre.nodes
             /\ pre.nodes[y].left = Nil /\ pre.nodes[y].right = Nil

\* the nodes the last call allocated
Allocated == DOMAIN post.nodes \ DOMAIN pre.nodes

\* C38: under any deterministic comparator, the descent of an Insert whose
\* Search did not find the value does not meet the value either, so the
\* return of line 76 is not taken: Insert returns with no node or with one
\* node allocated, that node is linked into the tree, and size has grown by
\* one exactly when a node was linked.
InsertLinksWhatItAllocates ==
    op = "Insert" =>
        /\ ~Search(pre, arg) => ~insertDescend(pre, arg, pre.root, Nil).dup
        /\ Allocated \subseteq Reachable(post)
        /\ Cardinality(Allocated) = IF Search(pre, arg) THEN 0 ELSE 1
        /\ post.size = pre.size + Cardinality(Allocated)
        /\ Reachable(post) = DOMAIN pre.nodes \cup Allocated

\* an Insert has linked a node two links or more below the root with a
\* value the tree held already, in a node the comparator leads away from
InsertLinksWitness ==
    /\ op = "Insert" /\ Allocated # {} /\ TreeLen(pre) >= 3
    /\ arg \in Stored(pre)
    /\ \A n \in Allocated :
          /\ n \in Reachable(post)
          /\ pre.nodes[insertDescend(pre, arg, pre.root, Nil).parent].parent # Nil

====
